---- MODULE Spec2Model ----
(***************************************************************************)
(* Job orchestration core of the drug-target pipeline web application      *)
(* (src/app.py): the in-memory job registry, its persisted records, the    *)
(* single-stage and full-pipeline coordinator threads, the external filter *)
(* processes they supervise, the timeout timer, and the facade operations  *)
(* end_job, cleanup_job, recover_stuck_jobs and load_jobs; and the result  *)
(* cache of the filter tool (src/blast_filter.py).                         *)
(*                                                                         *)
(* Conventions.  A Python None is the empty tuple <<>> and a value x that  *)
(* may be None is <<x>>.  A formatted string is the tuple of its pieces,   *)
(* so a literal message "Failed" is <<"Failed">>.  A dict is a function;   *)
(* a key that a dict lacks is absent from the function's DOMAIN.           *)
(* The model follows one submitted job from creation to the end of its     *)
(* coordinator thread and across a server restart.                         *)
(***************************************************************************)
EXTENDS Integers, Sequences, FiniteSets, TLC

\* ------------------------------------------------------------------ bounds
MaxTime == 1
MaxLines == 1

\* --------------------------------------------------------------- constants
SIGTERM == 15
SIGKILL == 9
timeout_seconds == 7200

None == << >>
Some(x) == <<x>>

databases == <<"human", "deg", "vfdb", "eskape">>
progress_map == [human |-> 10, deg |-> 35, vfdb |-> 60, eskape |-> 85]
prev_db_map == [deg |-> "human", vfdb |-> "deg", eskape |-> "vfdb"]

DatabaseSet == {databases[i] : i \in 1..Len(databases)}
\* The single-stage filters the model submits: the first stage, whose input
\* is the combined file, and one whose input is the previous stage's output.
SingleTypes == {"human", "deg"}
CurrentProject == "p1"
Projects == {"p1", "p2"}

TerminalStatus == {"completed", "failed", "cancelled"}

\* Lines the filter tool may print: step banners and free text.
ToolLines == {"STEP 4: Starting BLAST", "STEP 5: Filtering", "hit"}

\* The text of a line the pipeline thread reads: it only logs it.
PipelineLines == {"hit"}

\* Numbers of passing sequences a filter run may write: none or some.  The
\* pipeline thread passes the counts through unread.
SeqCounts == {0, 1}
PipelineCounts == {1}

\* Sizes (in MB) that stat() may report for the BLAST output file.
BlastSizes == {0, 20}

\* What the volume holding the job files does to a write: it succeeds, open()
\* raises (read-only, permission), or the file is truncated by open() and the
\* dump raises (no space left).
DiskModes == {"ok", "readonly", "full"}

\* The content of a job file that is not a JSON document: json.load raises
\* JSONDecodeError on it.
Truncated == [garbage |-> "syntax"]

\* The content of a job file whose bytes are not text in the default
\* encoding: reading it raises UnicodeDecodeError, a ValueError that is not
\* a JSONDecodeError.
Undecodable == [garbage |-> "encoding"]

VARIABLES active_jobs, job_order, jobs_dir, threads, procs, pipe, files, now,
          socket_out, disk, socketio, tool, completion

vars == <<active_jobs, job_order, jobs_dir, threads, procs, pipe, files, now,
          socket_out, disk, socketio, tool, completion>>

\* ----------------------------------------------------------------- helpers
Min(a, b) == IF a <= b THEN a ELSE b

\* dict.update(): right-hand keys win, other keys are kept.
DictUpdate(d, u) ==
    [k \in DOMAIN d \cup DOMAIN u |-> IF k \in DOMAIN u THEN u[k] ELSE d[k]]

\* {k: v for k, v in d.items() if k not in keys}
DictWithout(d, keys) == [k \in DOMAIN d \ keys |-> d[k]]

\* d with key k set to v (d[k] = v)
DictSet(d, k, v) == [x \in DOMAIN d \cup {k} |-> IF x = k THEN v ELSE d[x]]

format_time(seconds) ==
    IF seconds < 60 THEN <<ToString(seconds), "s">>
    ELSE IF seconds < 3600
         THEN <<ToString(seconds \div 60), "m", ToString(seconds % 60), "s">>
         ELSE <<ToString(seconds \div 3600), "h",
                ToString((seconds % 3600) \div 60), "m">>

\* The job type that create_job stores for a requested job_type.
JobTypeName(job_type) ==
    IF job_type = "pipeline_all" THEN "Full Pipeline"
    ELSE IF job_type = "alignment" THEN "Alignment"
    ELSE job_type

\* The in-memory record create_job builds.
NewJob(job_id, job_type, t) ==
    [id |-> job_id,
     type |-> JobTypeName(job_type),
     project |-> CurrentProject,
     status |-> "queued",
     progress |-> 0,
     created_at |-> t,
     started_at |-> Some(t),
     ended_at |-> None,
     runtime_seconds |-> 0,
     runtime |-> None,
     current_step |-> None,
     logs |-> << >>,
     results |-> None,
     process |-> None]

\* A "world" is the part of the state that update_job and add_job_log
\* touch: the registry, the job files and the events emitted by the step.
World == [jobs |-> active_jobs, order |-> job_order, dir |-> jobs_dir,
          out |-> << >>, disk |-> disk, socketio |-> socketio]

\* The element of a singleton set.
Only(S) == CHOOSE x \in S : TRUE

\* An update that merges and never recomputes the runtime.
UpdatedJobMergedOnly(job, updates) == DictUpdate(job, updates)

\* The in-memory effect of update_job: merge, then recompute the runtime.
UpdatedJob(job, updates) ==
    LET merged == DictUpdate(job, updates)
    IN  IF "ended_at" \in DOMAIN updates /\ merged.started_at # None
            /\ updates.ended_at # None
        THEN LET runtime_seconds == updates.ended_at[1] - merged.started_at[1]
             IN  [merged EXCEPT !.runtime_seconds = runtime_seconds,
                                !.runtime = format_time(runtime_seconds)]
        ELSE merged

\* A save that leaves out the process handle only, as create_job's does.
SaveDataKeepsTimer(job) == DictWithout(job, {"process"})

SaveData(job) == DictWithout(job, {"process", "timeout_timer"})

\* A save that writes nothing.
SaveJobFileSkipped(w, job_id, job) == w.dir

\* The "Save to file" block of update_job: the exception of a failed write
\* is caught and printed.
SaveJobFile(w, job_id, job) ==
    IF w.disk = "ok" THEN DictSet(w.dir, job_id, SaveData(job))
    ELSE IF w.disk = "full" THEN DictSet(w.dir, job_id, Truncated)
    ELSE w.dir

\* socketio.emit inside try/except: with clients or without, the event is
\* emitted; an emit that raises is caught and nothing is emitted.
SocketModes == {"ok", "no_clients", "raises"}

emit(w, event) ==
    IF w.socketio = "raises" THEN w.out ELSE Append(w.out, event)

\* An update that publishes first and is given up when publishing raises.
update_job_emit_unguarded(w, job_id, updates) ==
    IF job_id \in DOMAIN w.jobs /\ w.socketio # "raises"
    THEN LET job == UpdatedJob(w.jobs[job_id], updates)
         IN  [w EXCEPT !.jobs = DictSet(w.jobs, job_id, job),
                       !.dir = SaveJobFile(w, job_id, job),
                       !.out = emit(w, <<"job_update", job_id>>)]
    ELSE w

\* An update in which a failed write ends the call.
update_job_aborts(w, job_id, updates) ==
    IF job_id \in DOMAIN w.jobs /\ w.disk = "ok"
    THEN LET job == UpdatedJob(w.jobs[job_id], updates)
         IN  [w EXCEPT !.jobs = DictSet(w.jobs, job_id, job),
                       !.dir = SaveJobFile(w, job_id, job),
                       !.out = emit(w, <<"job_update", job_id>>)]
    ELSE w

\* (The world and the updated job are bound as elements of singleton sets,
\* which makes TLC evaluate each of them once.)
update_job(world, job_id, updates) ==
    Only({IF job_id \in DOMAIN w.jobs
          THEN Only({[w EXCEPT !.jobs = DictSet(w.jobs, job_id, job),
                               !.dir = SaveJobFile(w, job_id, job),
                               !.out = emit(w, <<"job_update", job_id>>)] :
                       job \in {UpdatedJob(w.jobs[job_id], updates)}})
          ELSE w : w \in {world}})

\* A log that puts the new entry first.
add_job_log_prepend(w, job_id, message, level) ==
    IF job_id \in DOMAIN w.jobs
    THEN LET log_entry == [level |-> level, message |-> message]
             job == w.jobs[job_id]
         IN  [w EXCEPT !.jobs = DictSet(w.jobs, job_id,
                                   [job EXCEPT !.logs = <<log_entry>> \o @]),
                       !.out = emit(w, <<"job_log", job_id>>)]
    ELSE w

add_job_log(world, job_id, message, level) ==
    Only({IF job_id \in DOMAIN w.jobs
          THEN LET log_entry == [level |-> level, message |-> message]
                   job == w.jobs[job_id]
               IN  [w EXCEPT !.jobs = DictSet(w.jobs, job_id,
                                [job EXCEPT !.logs = Append(@, log_entry)]),
                             !.out = emit(w, <<"job_log", job_id>>)]
          ELSE w : w \in {world}})

\* active_jobs[job_id][key] = value, a bare field write without update_job
SetField(w, job_id, key, value) ==
    [w EXCEPT !.jobs = DictSet(w.jobs, job_id,
                               DictSet(w.jobs[job_id], key, value))]

\* create_job: the project is the session's current_project; a key that
\* the registry has keeps its place in the dict's iteration order, a new
\* key goes last.
create_job(w, job_id, job_type, current_project) ==
    LET job_data == [NewJob(job_id, job_type, now)
                        EXCEPT !.project = current_project]
    IN  [w EXCEPT !.jobs = DictSet(w.jobs, job_id, job_data),
                  !.order = IF job_id \in DOMAIN w.jobs THEN @
                            ELSE Append(@, job_id),
                  !.dir = DictSet(w.dir, job_id,
                                  DictWithout(job_data, {"process"}))]

Commit(w) ==
    /\ active_jobs' = w.jobs
    /\ job_order' = w.order
    /\ jobs_dir' = w.dir
    /\ socket_out' = w.out
    /\ disk' = w.disk
    /\ socketio' = w.socketio
    /\ completion' = completion
    /\ tool' = tool

\* get_jobs: the jobs of the session's project, in the registry's iteration
\* order, each without its process and timer handles.
get_jobs(current_project) ==
    LET listed(job_id) == active_jobs[job_id].project = current_project
        ids == SelectSeq(job_order, listed)
    IN  [n \in 1..Len(ids) |->
           DictWithout(active_jobs[ids[n]], {"process", "timeout_timer"})]


\* ------------------------------------------------------ files and results
combined_file == <<"combined.faa">>
passing_file(db) == <<db, "_passing.faa">>
filtered_file(db) == <<db, "_filtered.tsv">>
summary_file(db) == <<db, "_summary.txt">>
\* ClustalW's alignment of the protein's variants file
aln_file == <<"variants.aln">>

\* The file whose '>' lines get_step_results counts as the stage's input.
input_file(database) ==
    IF database = "human" THEN combined_file
    ELSE passing_file(prev_db_map[database])

\* get_step_results over the project's output directory fs, a function from
\* the names of the existing files to their number of records.
\* A summary that leaves the passing file uncounted.
get_step_results_uncounted(fs, database) ==
    IF input_file(database) \in DOMAIN fs
    THEN [k \in {"input_sequences"} |-> fs[input_file(database)]]
    ELSE << >>

get_step_results(fs, database) ==
    LET r1 == IF input_file(database) \in DOMAIN fs
              THEN [k \in {"input_sequences"} |-> fs[input_file(database)]]
              ELSE << >>
        r2 == IF passing_file(database) \in DOMAIN fs
              THEN DictUpdate(r1,
                     [passing_sequences |-> fs[passing_file(database)],
                      passing_file |-> passing_file(database)])
              ELSE r1
        r3 == IF filtered_file(database) \in DOMAIN fs
              THEN DictUpdate(r2,
                     [filtered_hits |-> fs[filtered_file(database)] - 1,
                      filtered_file |-> filtered_file(database)])
              ELSE r2
    IN  IF summary_file(database) \in DOMAIN fs
        THEN DictUpdate(r3, [summary_file |-> summary_file(database)])
        ELSE r3

\* Python truthiness of a results value: None and {} are both falsy.
Falsy(d) == DOMAIN d = {}

\* What a filter run for db leaves behind when it exits 0: nothing, or its
\* passing / filtered / summary files with c passing sequences.
ToolWrites(fs, db, c) ==
    IF db = "alignment" THEN DictUpdate(fs, [n \in {aln_file} |-> c])
    ELSE
    DictUpdate(fs,
      [n \in {passing_file(db), filtered_file(db), summary_file(db)} |->
         IF n = passing_file(db) THEN c
         ELSE IF n = filtered_file(db) THEN c + 1 ELSE 0])

\* --------------------------------------------------------------- processes
Unborn == [state |-> "unborn", returncode |-> None, lines |-> 0]

\* The stages a job of the given requested type runs, in order.
StagesOf(job_type) ==
    IF job_type = "pipeline_all" THEN databases ELSE <<job_type>>

\* Popen(): the child exists and runs.
Popen(ps, i) == [ps EXCEPT ![i] = [state |-> "running", returncode |-> None,
                                   lines |-> 0]]

\* A termination signal delivered to process i: a running process dies with
\* the negated signal number, an exited one is unaffected.
Signalled(ps, i, sig) ==
    IF ps[i].state = "running"
    THEN [ps EXCEPT ![i].state = "exited", ![i].returncode = Some(0 - sig)]
    ELSE ps

\* process.poll() is None
poll_is_None(p) == p.state = "running"

\* Lines of the filter tool and the milestone substrings they contain.
Markers(line) ==
    IF line = "STEP 4: Starting BLAST" THEN {"STEP 4", "BLAST", "Starting BLAST"}
    ELSE IF line = "STEP 5: Filtering" THEN {"STEP 5", "Filtering"}
    ELSE {}

Has(line, sub) == sub \in Markers(line)

\* ------------------------------------- result cache of the filter tool
\* (src/blast_filter.py).  Thresholds the tool may be run with: identity and
\* coverage in percent, the e-value as the k of 10^-k.
\* The tool's defaults (35.0, 70.0, 1e-05) and the three settings that
\* differ from them in one threshold.
Thresholds ==
    {[identity |-> 35, coverage |-> 70, evalue |-> 5],
     [identity |-> 40, coverage |-> 70, evalue |-> 5],
     [identity |-> 35, coverage |-> 90, evalue |-> 5],
     [identity |-> 35, coverage |-> 70, evalue |-> 3]}

\* Modification times (whole seconds) of the raw-hit file.
Mtimes == {1, 2, 3}

\* Raw hits the BLAST output may hold: query id, percent identity, aligned
\* length, and e-value as the k of 10^-k.
Hit1 == [id |-> "q1", pident |-> 50, length |-> 95, evalue |-> 9]
Hit2 == [id |-> "q2", pident |-> 36, length |-> 80, evalue |-> 4]
HitSets == {{}, {Hit1}, {Hit1, Hit2}}

\* str() of a non-negative int, one character per element.
RECURSIVE Digits(_)
Digits(n) ==
    IF n < 10 THEN <<ToString(n)>> ELSE Append(Digits(n \div 10), ToString(n % 10))

\* str() of a float with a whole value: 35.0 -> "35.0"
FloatStr(n) == Digits(n) \o <<".", "0">>

\* str() of the float 10^-k: 0.001 for k = 3, 1e-05 for k = 5 (repr switches
\* to the exponent form below 0.0001, with a two-digit exponent).
RECURSIVE Zeros(_)
Zeros(n) == IF n = 0 THEN << >> ELSE <<"0">> \o Zeros(n - 1)

EvalueStr(k) ==
    IF k <= 4 THEN <<"0", ".">> \o Zeros(k - 1) \o <<"1">>
    ELSE <<"1", "e", "-">> \o (IF k < 10 THEN <<"0">> ELSE << >>) \o Digits(k)

\* The raw-hit file of the stage: its path, and its modification time when
\* it exists.
blast_path == <<"human", "_", "blast", ".", "tsv">>

\* hashlib.md5(...).hexdigest(), taken as free of collisions: the digest
\* stands for the string it was computed from.
md5(key_str) == <<"md5", key_str>>

\* A key that leaves the e-value out of the hashed string.
get_cache_key_no_evalue(blast_file, identity, coverage, evalue) ==
    LET blast_mtime == IF blast_file.exists THEN FloatStr(blast_file.mtime)
                       ELSE <<"0">>
    IN  md5(blast_path \o <<"_">> \o blast_mtime \o <<"_">>
            \o FloatStr(identity) \o <<"_">> \o FloatStr(coverage))

get_cache_key(blast_file, identity, coverage, evalue) ==
    LET blast_mtime == IF blast_file.exists THEN FloatStr(blast_file.mtime)
                       ELSE <<"0">>
    IN  md5(blast_path \o <<"_">> \o blast_mtime \o <<"_">>
            \o FloatStr(identity) \o <<"_">> \o FloatStr(coverage)
            \o <<"_">> \o EvalueStr(evalue))

\* States of the cache file: absent; present but not a pickle ("corrupt");
\* present but not openable ("unreadable"); or a pickled entry.
CacheStates == {"absent", "corrupt", "unreadable"}
NoCache(state) == [state |-> state]
HasEntry(cache_file) == cache_file.state = "entry"

\* An exception leaving a function.
Raised(e) == [raised |-> e]
IsRaised(x) == "raised" \in DOMAIN x

\* A lookup without the try/except around open and pickle.load.
get_cached_results_unguarded(cache_file, blast_file, identity, coverage, evalue) ==
    IF cache_file.state = "absent" THEN None
    ELSE IF cache_file.state = "unreadable" THEN Raised("PermissionError")
    ELSE IF cache_file.state = "corrupt" THEN Raised("UnpicklingError")
    ELSE IF cache_file.cache_key =
               get_cache_key(blast_file, identity, coverage, evalue)
    THEN DictWithout(cache_file, {"state"})
    ELSE None

\* A lookup that never finds an entry.
get_cached_results_miss(cache_file, blast_file, identity, coverage, evalue) == None

get_cached_results(cache_file, blast_file, identity, coverage, evalue) ==
    IF cache_file.state = "absent" THEN None
    ELSE IF ~HasEntry(cache_file) THEN None
    ELSE IF cache_file.cache_key =
               get_cache_key(blast_file, identity, coverage, evalue)
    THEN DictWithout(cache_file, {"state"})
    ELSE None

\* A save that stores the ids of the raw hits where the filtered ids belong.
save_cached_results_raw_ids(cache_file, blast_file, identity, coverage, evalue, filtered_ids, hit_details, blast_hits, write) ==
    IF write = "open_fails" THEN [ok |-> FALSE, file |-> cache_file]
    ELSE IF write = "dump_fails" THEN [ok |-> FALSE, file |-> NoCache("corrupt")]
    ELSE [ok |-> TRUE,
          file |-> [state |-> "entry",
                    cache_key |-> get_cache_key(blast_file, identity,
                                                coverage, evalue),
                    filtered_ids |-> {h.id : h \in blast_hits},
                    hit_details |-> hit_details,
                    blast_hits |-> blast_hits,
                    timestamp |-> now]]

\* save_cached_results: whether it succeeded, and the cache file it leaves.
\* write says how the write goes: "ok", open() raises, or pickle.dump raises
\* into the file it has opened.
save_cached_results(cache_file, blast_file, identity, coverage, evalue, filtered_ids, hit_details, blast_hits, write) ==
    IF write = "open_fails" THEN [ok |-> FALSE, file |-> cache_file]
    ELSE IF write = "dump_fails" THEN [ok |-> FALSE, file |-> NoCache("corrupt")]
    ELSE [ok |-> TRUE,
          file |-> [state |-> "entry",
                    cache_key |-> get_cache_key(blast_file, identity,
                                                coverage, evalue),
                    filtered_ids |-> filtered_ids,
                    hit_details |-> hit_details,
                    blast_hits |-> blast_hits,
                    timestamp |-> now]]

WriteModes == {"ok", "open_fails", "dump_fails"}

\* utils.get_sequence_lengths of the stage's input file: what the input may
\* be, the length of each query sequence in amino acids.
QueryLengths ==
    {[id \in {"q1", "q2"} |-> 100],
     [id \in {"q1", "q2"} |-> IF id = "q1" THEN 200 ELSE 100]}

\* utils.parse_blast_results and utils.filter_blast_hits: the raw hits of
\* the file, and those that meet the three thresholds, the coverage of a
\* hit being its aligned length in percent of the length of its query.
parse_blast_results(blast_file) == blast_file.hits

Passes(h, query_lengths, identity, coverage, evalue) ==
    /\ h.id \in DOMAIN query_lengths
    /\ h.pident >= identity
    /\ (h.length * 100) \div query_lengths[h.id] >= coverage
    /\ h.evalue >= evalue

filter_blast_hits(hits, query_lengths, identity, coverage, evalue) ==
    LET passing == {h \in hits :
                      Passes(h, query_lengths, identity, coverage, evalue)}
    IN  [filtered_ids |-> {h.id : h \in passing},
         hit_details |-> [id \in {h.id : h \in passing} |->
                            CHOOSE h \in passing : h.id = id]]

\* The tool's files before its first run, and what is remembered of its
\* last run of STEP 5 (run) and of the inputs of the last save (saved_with).
NewTool ==
    [blast |-> [exists |-> TRUE, mtime |-> 1, hits |-> {Hit1, Hit2}],
     filtered_seqs |-> [id \in {"q1", "q2"} |-> 100],
     cache |-> NoCache("absent"),
     saved_with |-> None,
     run |-> None]

\* STEP 5 of filter_database (lines 675-727) on the tool state tl: the cache
\* lookup, the parse and threshold filter when nothing was served, and the
\* save.  An exception leaving it ends the tool with exit status 1 (main).
Step5(tl, use_cache, identity, coverage, evalue, write) ==
    LET cached == IF use_cache
                  THEN get_cached_results(tl.cache, tl.blast, identity,
                                          coverage, evalue)
                  ELSE None
        served == ~IsRaised(cached) /\ cached # None
        blast_hits == IF served THEN cached.blast_hits
                      ELSE parse_blast_results(tl.blast)
        computed == filter_blast_hits(blast_hits, tl.filtered_seqs, identity,
                                      coverage, evalue)
        filtered_ids == IF served THEN cached.filtered_ids
                        ELSE computed.filtered_ids
        hit_details == IF served THEN cached.hit_details
                       ELSE computed.hit_details
        saves == ~served /\ blast_hits # {} /\ use_cache
        saved == save_cached_results(tl.cache, tl.blast, identity, coverage,
                                     evalue, filtered_ids, hit_details,
                                     blast_hits, write)
        outcome == [use_cache |-> use_cache, identity |-> identity,
                    coverage |-> coverage, evalue |-> evalue,
                    write |-> write]
    IN  IF IsRaised(cached)
        THEN [tl EXCEPT !.run = Some(DictUpdate(outcome,
                 [exit |-> 1, from_cache |-> FALSE, parsed |-> FALSE,
                  saved |-> FALSE, filtered_ids |-> {},
                  hit_details |-> << >>, blast_hits |-> {}]))]
        ELSE [tl EXCEPT
                !.cache = IF saves THEN saved.file ELSE @,
                !.saved_with = IF saves /\ saved.ok
                               THEN Some(<<tl.blast.mtime, identity, coverage,
                                           evalue>>)
                               ELSE IF saves /\ write = "dump_fails" THEN None
                               ELSE @,
                !.run = Some(DictUpdate(outcome,
                   [exit |-> 0, from_cache |-> served, parsed |-> ~served,
                    saved |-> saves /\ saved.ok,
                    filtered_ids |-> filtered_ids,
                    hit_details |-> hit_details,
                    blast_hits |-> blast_hits]))]

\* One run of the tool's STEP 5.
FilterStep5(use_cache, identity, coverage, evalue, write) ==
    /\ tool' = Step5(tool, use_cache, identity, coverage, evalue, write)
    /\ UNCHANGED <<active_jobs, job_order, jobs_dir, threads, procs, pipe, files, now,
                   socket_out, disk, socketio, completion>>

\* BLAST is run again: the raw-hit file is rewritten, with a later
\* modification time.
BlastRewritten(mtime, hits) ==
    /\ mtime > tool.blast.mtime
    /\ tool' = [tool EXCEPT !.blast.mtime = mtime, !.blast.hits = hits]
    /\ UNCHANGED <<active_jobs, job_order, jobs_dir, threads, procs, pipe, files, now,
                   socket_out, disk, socketio, completion>>

\* The stage's input file is replaced while the raw-hit file is kept, as
\* for a run with --skip-blast.
InputChanged(query_lengths) ==
    /\ query_lengths # tool.filtered_seqs
    /\ tool' = [tool EXCEPT !.filtered_seqs = query_lengths]
    /\ UNCHANGED <<active_jobs, job_order, jobs_dir, threads, procs, pipe,
                   files, now, socket_out, disk, socketio, completion>>

\* The cache file is deleted, overwritten with garbage, or made unreadable.
CacheDamaged(state) ==
    /\ tool.cache.state # state
    /\ tool' = [tool EXCEPT !.cache = NoCache(state), !.saved_with = None]
    /\ UNCHANGED <<active_jobs, job_order, jobs_dir, threads, procs, pipe, files, now,
                   socket_out, disk, socketio, completion>>

\* ------------------------------- completion list of the project metadata
\* The threads of two preparation jobs of one project, and the proteins
\* they report.
Callers == {"t1", "t2"}
Proteins == {"A", "B", "C"}

\* meta: completed_mutation_proteins in the project's metadata file; pc and
\* meta_data: where each caller of _add_protein_to_completion_list is and
\* the list it holds; returned: the proteins of the calls that returned.
NewCompletion ==
    [meta |-> << >>,
     pc |-> [t \in Callers |-> "idle"],
     protein_data |-> [t \in Callers |-> None],
     meta_data |-> [t \in Callers |-> << >>],
     returned |-> {}]

\* The callers that hold the lock of "with threading.Lock():" when t comes
\* to it: each call makes a lock of its own, which nobody else holds.
LockHolders(t) == {}

\* The call, up to and including the acquisition of the lock.
AddCall(t, protein) ==
    /\ completion.pc[t] = "idle"
    /\ protein \notin completion.returned
    /\ LockHolders(t) = {}
    /\ completion' = [completion EXCEPT !.pc[t] = "read",
                                         !.protein_data[t] = Some(protein)]
    /\ UNCHANGED <<active_jobs, job_order, jobs_dir, threads, procs, pipe,
                   files, now, socket_out, disk, socketio, tool>>

\* json.load of the file and the append of a protein that is not in it.
AddRead(t) ==
    LET protein == completion.protein_data[t][1]
        listed == {completion.meta[n] : n \in DOMAIN completion.meta}
    IN  /\ completion.pc[t] = "read"
        /\ completion' =
              [completion EXCEPT
                 !.pc[t] = "write",
                 !.meta_data[t] = IF protein \in listed THEN completion.meta
                                  ELSE Append(completion.meta, protein)]
        /\ UNCHANGED <<active_jobs, job_order, jobs_dir, threads, procs,
                       pipe, files, now, socket_out, disk, socketio, tool>>

\* json.dump of the caller's list over the file, and the return.
AddWrite(t) ==
    /\ completion.pc[t] = "write"
    /\ completion' =
          [completion EXCEPT
             !.pc[t] = "idle",
             !.meta = completion.meta_data[t],
             !.returned = @ \cup {completion.protein_data[t][1]},
             !.protein_data[t] = None,
             !.meta_data[t] = << >>]
    /\ UNCHANGED <<active_jobs, job_order, jobs_dir, threads, procs, pipe,
                   files, now, socket_out, disk, socketio, tool>>

\* ------------------------------------------------------------------- Init
Init ==
    /\ active_jobs = << >>
    /\ job_order = << >>
    /\ jobs_dir = << >>
    /\ threads = << >>
    /\ procs = << >>
    /\ pipe = << >>
    /\ files \in {<< >>, [n \in {combined_file} |-> 1],
                 ToolWrites([n \in {combined_file} |-> 1], "human", 1)}
    /\ now = 0
    /\ socket_out = << >>
    /\ disk = "ok"
    /\ socketio = "ok"
    /\ tool = NewTool
    /\ completion = NewCompletion

\* ------------------------------------------------------------ environment
\* Time is counted from the submission of the job.
Tick ==
    /\ DOMAIN active_jobs # {}
    /\ now < MaxTime
    /\ now' = now + 1
    /\ socket_out' = << >>
    /\ UNCHANGED <<active_jobs, job_order, jobs_dir, threads, procs, pipe, files, disk, socketio,
                   tool, completion>>

\* The volume of the job files starts or stops failing writes, during a job
\* of the first stage.
DiskChange(mode) ==
    /\ \E job_id \in DOMAIN active_jobs : job_id[1] = databases[1]
    /\ mode # disk
    /\ disk' = mode
    /\ socket_out' = << >>
    /\ UNCHANGED <<socketio, active_jobs, job_order, jobs_dir, threads, procs, pipe, files, now,
                   tool, completion>>

\* The clients of the event channel leave or come back, or the channel
\* starts or stops raising, during a job of the first stage.
SocketChange(mode) ==
    /\ \E job_id \in DOMAIN active_jobs : job_id[1] = databases[1]
    /\ mode # socketio
    /\ socketio' = mode
    /\ socket_out' = << >>
    /\ UNCHANGED <<active_jobs, job_order, jobs_dir, threads, procs, pipe,
                   files, now, disk, tool, completion>>

\* Lines printed so far by the processes of one job.
RECURSIVE LinesPrinted(_, _)
LinesPrinted(ps, n) ==
    IF n = 0 THEN 0 ELSE ps[n].lines + LinesPrinted(ps, n - 1)

\* The running process of job_id's stage i prints a line.
ProcPrint(job_id, i, line) ==
    /\ procs[job_id][i].state = "running"
    /\ LinesPrinted(procs[job_id], Len(procs[job_id])) < MaxLines
    /\ threads[job_id].i = i
    /\ procs' = [procs EXCEPT ![job_id][i].lines = @ + 1]
    /\ pipe' = [pipe EXCEPT ![job_id] = Append(@, line)]
    /\ socket_out' = << >>
    /\ UNCHANGED <<active_jobs, job_order, jobs_dir, threads, files, now, disk, socketio, tool, completion>>

\* The running process of job_id's stage i exits by itself: status 0 with or
\* without its result files, or a nonzero status.
ProcExit(job_id, i, code, wrote, c) ==
    /\ procs[job_id][i].state = "running"
    /\ procs' = [procs EXCEPT ![job_id][i].state = "exited",
                              ![job_id][i].returncode = Some(code)]
    /\ files' = IF code = 0 /\ wrote
                THEN ToolWrites(files, StagesOf(job_id[1])[i], c)
                ELSE files
    /\ socket_out' = << >>
    /\ UNCHANGED <<active_jobs, job_order, jobs_dir, threads, pipe, now, disk, socketio, tool, completion>>

\* ----------------------------------------------------------------- submit
\* start_pipeline / start_full_pipeline: job_id = f"{database}_{int(time)}"
Submit(job_type) ==
    LET job_id == <<job_type, now>>
    IN  /\ DOMAIN active_jobs = {}
        /\ DOMAIN jobs_dir = {}
        /\ Commit(create_job(World, job_id, job_type, CurrentProject))
        /\ threads' = DictSet(threads, job_id,
                        [pc |-> "start", i |-> 1, step_results |-> << >>,
                         blast_started |-> FALSE, last_blast_size |-> 0])
        /\ procs' = DictSet(procs, job_id,
                        [i \in 1..Len(StagesOf(job_type)) |-> Unborn])
        /\ pipe' = DictSet(pipe, job_id, << >>)
        /\ UNCHANGED <<files, now>>

\* A second request to start_pipeline, made once the coordinator of the job
\* submitted before it has ended: the id is built the same way and
\* create_job stores under it whatever the registry and directory hold.
SubmitAgain(job_type, current_project) ==
    LET job_id == <<job_type, now>>
    IN  /\ Cardinality(DOMAIN active_jobs) = 1
        /\ \A j \in DOMAIN threads : threads[j].pc = "done"
        /\ Commit(create_job(World, job_id, job_type, current_project))
        /\ threads' = DictSet(threads, job_id,
                        [pc |-> "start", i |-> 1, step_results |-> << >>,
                         blast_started |-> FALSE, last_blast_size |-> 0])
        /\ procs' = DictSet(procs, job_id,
                        [i \in 1..Len(StagesOf(job_type)) |-> Unborn])
        /\ pipe' = DictSet(pipe, job_id, << >>)
        /\ UNCHANGED <<files, now>>


\* ------------------------------------------ single-stage coordinator thread
IsSingle(job_id) ==
    job_id[1] \notin {"pipeline_all", "alignment", "mutational_prep"}

Goto(job_id, label) == threads' = [threads EXCEPT ![job_id].pc = label]

\* run_step's "except Exception as e" handler
RunStepExcept(w, job_id, e) ==
    add_job_log(
      update_job(w, job_id, [status |-> "failed", ended_at |-> Some(now),
                             current_step |-> <<"Error:", e>>]),
      job_id, <<"Error:", e>>, "error")

\* run_step up to the Popen call: the 'running' update and two log lines.
RunStepStart(job_id) ==
    LET database == job_id[1]
        w1 == update_job(World, job_id,
                [status |-> "running", started_at |-> Some(now),
                 current_step |-> <<"Starting", database, "filter">>,
                 progress |-> 5])
        w2 == add_job_log(w1, job_id,
                <<"Starting", database, "filter for project:",
                  active_jobs[job_id].project>>, "info")
        w3 == add_job_log(w2, job_id, <<"Command:", database>>, "info")
    IN  /\ job_id \in DOMAIN threads
        /\ IsSingle(job_id)
        /\ threads[job_id].pc = "start"
        /\ Commit(w3)
        /\ Goto(job_id, "spawn")
        /\ UNCHANGED <<procs, pipe, files, now>>

\* subprocess.Popen, then kill_process_timeout: the timer is created,
\* started and stored in the job.  A Popen that raises ends the thread in
\* the except handler.
RunStepSpawn(job_id, started) ==
    /\ job_id \in DOMAIN threads
    /\ IsSingle(job_id)
    /\ threads[job_id].pc = "spawn"
    /\ IF started
       THEN /\ procs' = [procs EXCEPT ![job_id] = Popen(@, 1)]
            /\ pipe' = [pipe EXCEPT ![job_id] = << >>]
            /\ Commit(SetField(World, job_id, "timeout_timer", "armed"))
            /\ Goto(job_id, "timer")
       ELSE /\ Commit(RunStepExcept(World, job_id, "Popen"))
            /\ Goto(job_id, "done")
            /\ UNCHANGED <<procs, pipe>>
    /\ UNCHANGED <<files, now>>

\* Timer.cancel(): a timer that has not fired never will.
Cancelled(timer) == IF timer = "armed" THEN "cancelled" ELSE timer

\* "if 'timeout_timer' in active_jobs[job_id]: ....cancel()" and the store
\* of the process handle, both right after the timer was started.
RunStepCancelTimer(job_id) ==
    LET job == active_jobs[job_id]
        w1 == IF "timeout_timer" \in DOMAIN job
              THEN SetField(World, job_id, "timeout_timer",
                            Cancelled(job.timeout_timer))
              ELSE World
        w2 == SetField(w1, job_id, "process", Some(1))
    IN  /\ job_id \in DOMAIN threads
        /\ IsSingle(job_id)
        /\ threads[job_id].pc = "timer"
        /\ Commit(w2)
        /\ Goto(job_id, "read")
        /\ UNCHANGED <<procs, pipe, files, now>>

\* timeout_handler: runs when the armed timer expires.
timeout_handler(job_id) ==
    LET w1 == SetField(World, job_id, "timeout_timer", "fired")
        w2 == add_job_log(w1, job_id,
                <<"Process terminated after", ToString(timeout_seconds),
                  "s timeout">>, "error")
        w3 == update_job(w2, job_id,
                [status |-> "failed", ended_at |-> Some(now)])
    IN  /\ job_id \in DOMAIN active_jobs
        /\ "timeout_timer" \in DOMAIN active_jobs[job_id]
        /\ active_jobs[job_id].timeout_timer = "armed"
        /\ IF poll_is_None(procs[job_id][1])
           THEN /\ procs' = [procs EXCEPT ![job_id] = Signalled(@, 1, SIGTERM)]
                /\ Commit(w3)
           ELSE /\ Commit(w1)
                /\ UNCHANGED procs
        /\ UNCHANGED <<threads, pipe, files, now>>

\* The milestone chain of the output loop: the update a line triggers, or
\* << >> when it matches nothing.
Milestone(line) ==
    IF Has(line, "STEP 1") \/ Has(line, "Setup")
    THEN [progress |-> 10, current_step |-> <<line>>]
    ELSE IF Has(line, "STEP 2") \/ Has(line, "Input")
    THEN [progress |-> 15, current_step |-> <<line>>]
    ELSE IF Has(line, "STEP 3") \/ Has(line, "Analysis")
    THEN [progress |-> 20, current_step |-> <<line>>]
    ELSE IF Has(line, "STEP 4") \/ Has(line, "BLAST")
            \/ Has(line, "Starting BLAST")
    THEN [progress |-> 25, current_step |-> <<line>>]
    ELSE IF Has(line, "STEP 5") \/ Has(line, "Filtering")
    THEN [progress |-> 90, current_step |-> <<line>>]
    ELSE IF Has(line, "STEP 6")
    THEN [progress |-> 95, current_step |-> <<line>>]
    ELSE << >>

\* blast_started after the milestone chain has seen the line
BlastStarted(line, blast_started) ==
    IF Milestone(line) = << >> THEN blast_started
    ELSE IF Milestone(line).progress = 25 THEN TRUE
    ELSE IF Milestone(line).progress = 90 THEN FALSE
    ELSE blast_started

\* One iteration of "for line in process.stdout" of run_step; size_mb is the
\* size stat() reports for the BLAST output file.
RunStepRead(job_id, size_mb) ==
    LET line == Head(pipe[job_id])
        th == threads[job_id]
        w1 == add_job_log(World, job_id, <<line>>, "info")
        w2 == IF Milestone(line) = << >> THEN w1
              ELSE update_job(w1, job_id, Milestone(line))
        started == BlastStarted(line, th.blast_started)
        grew == started /\ size_mb > th.last_blast_size
        w3 == IF grew
              THEN update_job(w2, job_id,
                     [progress |-> Min(85, 25 + size_mb * 3),
                      current_step |-> <<"BLAST running...",
                                         ToString(size_mb), "MB output">>])
              ELSE w2
    IN  /\ job_id \in DOMAIN threads
        /\ IsSingle(job_id)
        /\ th.pc = "read"
        /\ pipe[job_id] # << >>
        /\ pipe' = [pipe EXCEPT ![job_id] = Tail(@)]
        /\ IF line = ""
           THEN Commit(World) /\ UNCHANGED <<threads, procs>>
           ELSE IF active_jobs[job_id].status # "running"
           THEN /\ Commit(add_job_log(World, job_id,
                     <<"Job cancellation detected, terminating process.">>,
                     "warning"))
                /\ procs' = [procs EXCEPT ![job_id] = Signalled(@, 1, SIGTERM)]
                /\ Goto(job_id, "wait")
           ELSE /\ Commit(w3)
                /\ threads' = [threads EXCEPT
                      ![job_id].blast_started = started,
                      ![job_id].last_blast_size =
                          IF grew THEN size_mb ELSE @]
                /\ UNCHANGED procs
        /\ UNCHANGED <<files, now>>

\* End of file on the child's output: the loop ends.
RunStepEof(job_id) ==
    /\ job_id \in DOMAIN threads
    /\ IsSingle(job_id)
    /\ threads[job_id].pc = "read"
    /\ pipe[job_id] = << >>
    /\ procs[job_id][1].state = "exited"
    /\ Goto(job_id, "wait")
    /\ Commit(World)
    /\ UNCHANGED <<procs, pipe, files, now>>

\* process.wait() and the branch on the return code, up to the log line.
RunStepWait(job_id) ==
    LET database == job_id[1]
        ok == add_job_log(
                update_job(World, job_id,
                  [status |-> "completed", progress |-> 100,
                   ended_at |-> Some(now),
                   current_step |-> <<"Completed successfully">>]),
                job_id, <<database, "filter completed successfully!">>,
                "success")
        ko == add_job_log(
                update_job(World, job_id,
                  [status |-> "failed", ended_at |-> Some(now),
                   current_step |-> <<"Failed">>]),
                job_id, <<database, "filter failed!">>, "error")
    IN  /\ job_id \in DOMAIN threads
        /\ IsSingle(job_id)
        /\ threads[job_id].pc = "wait"
        /\ procs[job_id][1].state = "exited"
        /\ IF procs[job_id][1].returncode = Some(0)
           THEN Commit(ok) /\ Goto(job_id, "attach")
           ELSE Commit(ko) /\ Goto(job_id, "done")
        /\ UNCHANGED <<procs, pipe, files, now>>

\* results = get_step_results(database, project); update_job(results)
RunStepAttach(job_id) ==
    /\ job_id \in DOMAIN threads
    /\ IsSingle(job_id)
    /\ threads[job_id].pc = "attach"
    /\ Commit(update_job(World, job_id,
                [results |-> get_step_results(files, job_id[1])]))
    /\ Goto(job_id, "done")
    /\ UNCHANGED <<procs, pipe, files, now>>


\* ------------------------------------------ full-pipeline coordinator thread
IsPipeline(job_id) == job_id[1] = "pipeline_all"

\* A handler that writes the error to the log and leaves the status alone.
PipelineExceptLogsOnly(w, job_id, e) ==
    add_job_log(w, job_id, <<"Fatal Error:">> \o e, "error")

\* run_full_pipeline_thread's "except Exception as e" handler
PipelineExcept(w, job_id, e) ==
    add_job_log(
      update_job(w, job_id, [status |-> "failed", ended_at |-> Some(now),
                             current_step |-> <<"Error:">> \o e]),
      job_id, <<"Fatal Error:">> \o e, "error")

\* A top of the loop body that writes its log lines and makes no update.
PipelineStartLogsOnly(job_id) ==
    LET db == databases[threads[job_id].i]
        w2 == add_job_log(World, job_id, <<"--- Starting", db, "Filter ---">>,
                          "info")
        w3 == add_job_log(w2, job_id, <<"Command:", db>>, "info")
    IN  /\ job_id \in DOMAIN threads
        /\ IsPipeline(job_id)
        /\ threads[job_id].pc = "start"
        /\ Commit(w3)
        /\ Goto(job_id, "spawn")
        /\ UNCHANGED <<procs, pipe, files, now>>

\* Top of the loop body for the stage threads[job_id].i: the 'running'
\* update with the stage's label and progress, and two log lines.
PipelineStart(job_id) ==
    LET db == databases[threads[job_id].i]
        w1 == update_job(World, job_id,
                [status |-> "running",
                 current_step |-> <<"Starting", db, "filter...">>,
                 progress |-> progress_map[db]])
        w2 == add_job_log(w1, job_id, <<"--- Starting", db, "Filter ---">>,
                          "info")
        w3 == add_job_log(w2, job_id, <<"Command:", db>>, "info")
    IN  /\ job_id \in DOMAIN threads
        /\ IsPipeline(job_id)
        /\ threads[job_id].pc = "start"
        /\ Commit(w3)
        /\ Goto(job_id, "spawn")
        /\ UNCHANGED <<procs, pipe, files, now>>

\* subprocess.Popen for the stage and the store of its handle.
PipelineSpawn(job_id, started) ==
    LET i == threads[job_id].i
    IN  /\ job_id \in DOMAIN threads
        /\ IsPipeline(job_id)
        /\ threads[job_id].pc = "spawn"
        /\ IF started
           THEN /\ procs' = [procs EXCEPT ![job_id] = Popen(@, i)]
                /\ pipe' = [pipe EXCEPT ![job_id] = << >>]
                /\ Commit(SetField(World, job_id, "process", Some(i)))
                /\ Goto(job_id, "read")
           ELSE /\ Commit(PipelineExcept(World, job_id, <<"Popen">>))
                /\ Goto(job_id, "done")
                /\ UNCHANGED <<procs, pipe>>
        /\ UNCHANGED <<files, now>>

\* One iteration of "for line in process.stdout" of the pipeline thread.
PipelineRead(job_id) ==
    LET line == Head(pipe[job_id])
        i == threads[job_id].i
    IN  /\ job_id \in DOMAIN threads
        /\ IsPipeline(job_id)
        /\ threads[job_id].pc = "read"
        /\ pipe[job_id] # << >>
        /\ pipe' = [pipe EXCEPT ![job_id] = Tail(@)]
        /\ IF line = ""
           THEN Commit(World) /\ UNCHANGED <<threads, procs>>
           ELSE IF active_jobs[job_id].status # "running"
           THEN /\ Commit(add_job_log(World, job_id,
                     <<"Job cancellation detected, terminating process.">>,
                     "warning"))
                /\ procs' = [procs EXCEPT ![job_id] = Signalled(@, i, SIGTERM)]
                /\ Goto(job_id, "wait")
           ELSE /\ Commit(add_job_log(World, job_id, <<line>>, "info"))
                /\ UNCHANGED <<threads, procs>>
        /\ UNCHANGED <<files, now>>

PipelineEof(job_id) ==
    /\ job_id \in DOMAIN threads
    /\ IsPipeline(job_id)
    /\ threads[job_id].pc = "read"
    /\ pipe[job_id] = << >>
    /\ procs[job_id][threads[job_id].i].state = "exited"
    /\ Goto(job_id, "wait")
    /\ Commit(World)
    /\ UNCHANGED <<procs, pipe, files, now>>

\* A verdict that forgets the return code.
StageVerdictIgnoresExit(returncode, step_res) ==
    IF Falsy(step_res) THEN "missing" ELSE "ok"

\* The coordinator's verdict on a stage whose child has exited.  "failed":
\* nonzero return code; "missing": no results found; "ok": results to attach.
StageVerdict(returncode, step_res) ==
    IF returncode # Some(0) THEN "failed"
    ELSE IF Falsy(step_res) THEN "missing"
    ELSE "ok"

\* process.wait(), the clearing of the handle, the failure check, and the
\* attachment of the stage's results (lines 441-466).
PipelineWait(job_id) ==
    LET th == threads[job_id]
        i == th.i
        db == databases[i]
        w0 == SetField(World, job_id, "process", None)
        step_res == get_step_results(files, db)
        verdict == StageVerdict(procs[job_id][i].returncode, step_res)
        step_results == DictSet(th.step_results, db, step_res)
        failed == add_job_log(
                    update_job(w0, job_id,
                      [status |-> "failed", ended_at |-> Some(now),
                       current_step |-> <<"Failed during", db, "filter.">>]),
                    job_id, <<"Pipeline stopped:", db, "filter failed.">>,
                    "error")
        missing == PipelineExcept(w0, job_id,
                     <<db, "step completed but no output files were found.">>)
        attached == add_job_log(
                      update_job(w0, job_id, [results |-> step_results]),
                      job_id, <<"---", db, "Filter Completed Successfully ---">>,
                      "success")
    IN  /\ job_id \in DOMAIN threads
        /\ IsPipeline(job_id)
        /\ th.pc = "wait"
        /\ procs[job_id][i].state = "exited"
        /\ IF verdict = "failed"
           THEN Commit(failed) /\ Goto(job_id, "done")
           ELSE IF verdict = "missing"
           THEN Commit(missing) /\ Goto(job_id, "done")
           ELSE /\ Commit(attached)
                /\ threads' = [threads EXCEPT
                      ![job_id].step_results = step_results,
                      ![job_id].i = IF i < Len(databases) THEN i + 1 ELSE i,
                      ![job_id].pc = IF i < Len(databases) THEN "start"
                                     ELSE "complete"]
        /\ UNCHANGED <<procs, pipe, files, now>>

\* "All steps complete": the final update and log line.
PipelineComplete(job_id) ==
    LET w1 == update_job(World, job_id,
                [status |-> "completed", progress |-> 100,
                 ended_at |-> Some(now),
                 current_step |->
                     <<"All pipeline steps completed successfully.">>,
                 results |-> threads[job_id].step_results])
    IN  /\ job_id \in DOMAIN threads
        /\ IsPipeline(job_id)
        /\ threads[job_id].pc = "complete"
        /\ Commit(add_job_log(w1, job_id, <<"All pipeline steps completed.">>,
                              "success"))
        /\ Goto(job_id, "done")
        /\ UNCHANGED <<procs, pipe, files, now>>


\* ------------------------------------------------- alignment job's thread
IsAlignment(job_id) == job_id[1] = "alignment"

\* A handler that writes the error to the log and leaves the status alone.
AlignExceptLogsOnly(w, job_id, e) ==
    add_job_log(w, job_id, <<"Fatal Error:", e>>, "error")

\* run_alignment_thread's "except Exception as e" handler
AlignExcept(w, job_id, e) ==
    add_job_log(
      update_job(w, job_id, [status |-> "failed", ended_at |-> Some(now),
                             current_step |-> <<"Error:", e>>]),
      job_id, <<"Fatal Error:", e>>, "error")

\* The numbers of sequences the variants file may hold; 0 stands for a
\* file that is missing and cannot be regenerated.
VariantCounts == {0, 1, 2}

\* run_alignment_thread up to the Popen call: the 'running' update, the
\* checks of the variants file, the 'Running ClustalW...' update.
AlignStart(job_id, seq_count) ==
    LET w1 == add_job_log(
                update_job(World, job_id,
                  [status |-> "running",
                   current_step |-> <<"Preparing for alignment...">>,
                   progress |-> 5]),
                job_id, <<"--- Starting ClustalW Alignment ---">>, "info")
        missing == update_job(
                     add_job_log(w1, job_id,
                       <<"Fatal: Could not regenerate variants file.">>,
                       "error"),
                     job_id,
                     [status |-> "failed", ended_at |-> Some(now),
                      current_step |-> <<"Error:", "regenerate">>])
        single == update_job(
                    add_job_log(w1, job_id,
                      <<"Found only", ToString(seq_count), "sequence(s).">>,
                      "warning"),
                    job_id,
                    [status |-> "failed", progress |-> 100,
                     ended_at |-> Some(now),
                     current_step |-> <<"Alignment not possible">>])
        ready == update_job(
                   add_job_log(w1, job_id, <<"Command:", "clustalw">>, "info"),
                   job_id,
                   [progress |-> 20,
                    current_step |-> <<"Running ClustalW...">>])
    IN  /\ job_id \in DOMAIN threads
        /\ IsAlignment(job_id)
        /\ threads[job_id].pc = "start"
        /\ IF seq_count = 0 THEN Commit(missing) /\ Goto(job_id, "done")
           ELSE IF seq_count <= 1 THEN Commit(single) /\ Goto(job_id, "done")
           ELSE Commit(ready) /\ Goto(job_id, "spawn")
        /\ UNCHANGED <<procs, pipe, files, now>>

\* subprocess.Popen(['clustalw', ...]) and the store of its handle; a
\* command that is not found is logged and fails the job.
AlignSpawn(job_id, started) ==
    /\ job_id \in DOMAIN threads
    /\ IsAlignment(job_id)
    /\ threads[job_id].pc = "spawn"
    /\ IF started
       THEN /\ procs' = [procs EXCEPT ![job_id] = Popen(@, 1)]
            /\ pipe' = [pipe EXCEPT ![job_id] = << >>]
            /\ Commit(SetField(World, job_id, "process", Some(1)))
            /\ Goto(job_id, "read")
       ELSE /\ Commit(update_job(
                     add_job_log(World, job_id,
                       <<"Fatal Error:", "'clustalw' command not found.">>,
                       "error"),
                     job_id,
                     [status |-> "failed", ended_at |-> Some(now),
                      current_step |-> <<"Error:", "'clustalw' not found.">>]))
            /\ Goto(job_id, "done")
            /\ UNCHANGED <<procs, pipe>>
    /\ UNCHANGED <<files, now>>

\* "for line in process.stdout": one iteration, or the end of the loop at
\* end of file.
AlignRead(job_id) ==
    /\ job_id \in DOMAIN threads
    /\ IsAlignment(job_id)
    /\ threads[job_id].pc = "read"
    /\ IF pipe[job_id] # << >>
       THEN /\ pipe' = [pipe EXCEPT ![job_id] = Tail(@)]
            /\ Commit(IF Head(pipe[job_id]) = "" THEN World
                      ELSE add_job_log(World, job_id, <<Head(pipe[job_id])>>,
                                       "info"))
            /\ UNCHANGED threads
       ELSE /\ procs[job_id][1].state = "exited"
            /\ Commit(World)
            /\ Goto(job_id, "wait")
            /\ UNCHANGED pipe
    /\ UNCHANGED <<procs, files, now>>

\* process.wait() and the check of the return code and of the .aln file.
AlignWait(job_id) ==
    LET ok == add_job_log(
                update_job(World, job_id,
                  [status |-> "completed", progress |-> 100,
                   ended_at |-> Some(now),
                   current_step |-> <<"Alignment complete.">>,
                   results |-> [alignment_file |-> aln_file]]),
                job_id, <<"Alignment successful.">>, "success")
    IN  /\ job_id \in DOMAIN threads
        /\ IsAlignment(job_id)
        /\ threads[job_id].pc = "wait"
        /\ procs[job_id][1].state = "exited"
        /\ IF procs[job_id][1].returncode = Some(0) /\ aln_file \in DOMAIN files
           THEN Commit(ok)
           ELSE Commit(AlignExcept(World, job_id, "ClustalW process failed"))
        /\ Goto(job_id, "done")
        /\ UNCHANGED <<procs, pipe, files, now>>

\* ------------------------------------------------------- facade operations
\* "if 'process' in job and job['process']"
HasProcess(job) == "process" \in DOMAIN job /\ job.process # None

\* end_job: refuses a job that is neither running nor queued; otherwise
\* terminates the job's process (SIGTERM, then SIGKILL for a child that
\* outlives the grace period: sig is the signal that ended it) and updates
\* the job.
end_job(job_id, sig) ==
    LET job == active_jobs[job_id]
    IN  /\ job_id \in DOMAIN active_jobs
        /\ IF job.status \notin {"running", "queued"}
           THEN Commit(World) /\ UNCHANGED procs
           ELSE /\ procs' = IF HasProcess(job)
                            THEN [procs EXCEPT ![job_id] =
                                     Signalled(@, job.process[1], sig)]
                            ELSE procs
                /\ Commit(update_job(World, job_id,
                     [status |-> "failed", progress |-> 0,
                      current_step |-> <<"Job manually stopped by user">>,
                      ended_at |-> Some(now)]))
        /\ UNCHANGED <<threads, pipe, files, now>>

\* cleanup_job: signals the process group, cancels the timer, updates.
cleanup_job(job_id) ==
    LET job == active_jobs[job_id]
        w1 == IF "timeout_timer" \in DOMAIN job
              THEN SetField(World, job_id, "timeout_timer",
                            Cancelled(job.timeout_timer))
              ELSE World
    IN  /\ job_id \in DOMAIN active_jobs
        /\ procs' = IF HasProcess(job)
                    THEN [procs EXCEPT ![job_id] =
                             Signalled(@, job.process[1], SIGTERM)]
                    ELSE procs
        /\ Commit(update_job(w1, job_id,
             [status |-> "cancelled", ended_at |-> Some(now),
              current_step |-> <<"Cleaned up by user">>]))
        /\ UNCHANGED <<threads, pipe, files, now>>

\* A test that does not poll the process.
IsStuckUnpolled(job, ps) ==
    /\ job.status = "running"
    /\ HasProcess(job)

\* The test recover_stuck_jobs applies to one job.
IsStuck(job, ps) ==
    /\ job.status = "running"
    /\ HasProcess(job)
    /\ ~poll_is_None(ps[job.process[1]])

\* A recovery that reclassifies the job but leaves ended_at unset.
RecoverOneNoEndedAt(w, job_id) ==
    IF IsStuck(w.jobs[job_id], procs[job_id])
    THEN update_job(w, job_id,
           [status |-> "failed",
            current_step |-> <<"Process ended unexpectedly">>])
    ELSE w

\* The body of recover_stuck_jobs' loop for one job.
RecoverOne(w, job_id) ==
    IF IsStuck(w.jobs[job_id], procs[job_id])
    THEN update_job(w, job_id,
           [status |-> "failed", ended_at |-> Some(now),
            current_step |-> <<"Process ended unexpectedly">>])
    ELSE w

RECURSIVE RecoverAll(_, _)
RecoverAll(w, ids) ==
    IF ids = {} THEN w
    ELSE LET job_id == CHOOSE x \in ids : TRUE
         IN  RecoverAll(RecoverOne(w, job_id), ids \ {job_id})

recover_stuck_jobs ==
    /\ DOMAIN active_jobs # {}
    /\ Commit(RecoverAll(World, DOMAIN active_jobs))
    /\ UNCHANGED <<threads, procs, pipe, files, now>>

\* ----------------------------------------------------------------- restart
\* What load_jobs makes of one job file: a completed job without results
\* gets them rebuilt from the output files.
Reconstructed(job_data, fs) ==
    LET full == [db \in {d \in DatabaseSet : ~Falsy(get_step_results(fs, d))}
                    |-> get_step_results(fs, db)]
    IN  IF job_data.status = "completed" /\ Falsy(job_data.results)
        THEN IF job_data.type # "Full Pipeline"
             THEN IF ~Falsy(get_step_results(fs, job_data.type))
                  THEN [job_data EXCEPT
                          !.results = get_step_results(fs, job_data.type)]
                  ELSE job_data
             ELSE IF ~Falsy(full)
                  THEN [job_data EXCEPT !.results = full]
                  ELSE job_data
        ELSE job_data

\* JOBS_DIR.glob("*.json"): the job files, named by job id; a quarantined
\* file carries the extra suffix and is not matched.
JsonFiles(dir) == {f \in DOMAIN dir : Len(f) = 2}
Quarantined(f) == Append(f, ".corrupted")

IsJson(content) == "garbage" \notin DOMAIN content

\* What one iteration of load_jobs' loop does with the file f:
\* "load": the record enters the registry, rebuilt and saved back if need be;
\* "rename": JSONDecodeError, the file is renamed (a failed rename is passed
\* over); "skip": any other exception is printed.
LoadOutcome(dir, fs, mode, f) ==
    IF dir[f] = Truncated
    THEN IF mode = "readonly" THEN "skip" ELSE "rename"
    ELSE IF ~IsJson(dir[f]) THEN "skip"
    ELSE IF Reconstructed(dir[f], fs) = dir[f] THEN "load"
    ELSE IF mode = "ok" THEN "load"
    ELSE IF mode = "full" THEN "truncate"
    ELSE "skip"

\* load_jobs: the registry it builds and the directory it leaves.
load_jobs(dir, fs, mode) ==
    LET outcome(f) == LoadOutcome(dir, fs, mode, f)
        loaded == {f \in JsonFiles(dir) : outcome(f) = "load"}
        renamed == {f \in JsonFiles(dir) : outcome(f) = "rename"}
        ids == {dir[f].id : f \in loaded}
        kept == DOMAIN dir \ renamed
    IN  [jobs |-> [id \in ids |->
                     Reconstructed(
                       dir[CHOOSE f \in loaded : dir[f].id = id], fs)],
         dir |-> [f \in kept \cup {Quarantined(g) : g \in renamed} |->
                     IF f \in kept
                     THEN IF f \in loaded THEN Reconstructed(dir[f], fs)
                          ELSE IF f \in JsonFiles(dir)
                                  /\ outcome(f) = "truncate"
                          THEN Truncated
                          ELSE dir[f]
                     ELSE Truncated]]

\* The orders in which a dict filled from glob's listing may hold its keys.
Orders(keys) ==
    {order \in [1..Cardinality(keys) -> keys] :
        \A k \in keys : \E n \in DOMAIN order : order[n] = k}

\* The server process dies and is started again: threads and timers are
\* gone, child processes are orphaned, the registry is rebuilt by load_jobs.
Restart ==
    /\ DOMAIN jobs_dir # {}
    /\ active_jobs' = load_jobs(jobs_dir, files, disk).jobs
    /\ job_order' \in Orders(DOMAIN load_jobs(jobs_dir, files, disk).jobs)
    /\ jobs_dir' = load_jobs(jobs_dir, files, disk).dir
    /\ threads' = [job_id \in DOMAIN threads |->
                     [threads[job_id] EXCEPT !.pc = "dead"]]
    /\ socket_out' = << >>
    /\ UNCHANGED <<procs, pipe, files, now, disk, socketio, tool, completion>>

\* ------------------------------------------------------------ startup load
\* The job ids of the files a previous run of the server may have left.
LeftIds == {<<"human", 0>>, <<"deg", 0>>, <<"pipeline_all", 0>>}

\* What such a file may hold: the record of a job that was running or
\* completed when the server stopped, or garbage.
LeftContents(job_id) ==
    {[SaveData(NewJob(job_id, job_id[1], 0)) EXCEPT !.status = st] :
        st \in {"running", "completed"}}
    \cup {Truncated, Undecodable}

\* The state of a server about to start over a directory of job files.
InitLoad ==
    /\ active_jobs = << >>
    /\ job_order = << >>
    /\ \E present \in SUBSET LeftIds :
          jobs_dir \in [present -> UNION {LeftContents(f) : f \in LeftIds}]
          /\ \A f \in present : jobs_dir[f] \in LeftContents(f)
    /\ threads = << >>
    /\ procs = << >>
    /\ pipe = << >>
    /\ files \in {<< >>, [n \in {combined_file} |-> 1],
                 ToolWrites([n \in {combined_file} |-> 1], "human", 1)}
    /\ now = 0
    /\ socket_out = << >>
    /\ disk \in DiskModes
    /\ socketio = "ok"
    /\ tool = NewTool
    /\ completion = NewCompletion

\* -------------------------------------------------------------------- Next
\* The lines and sequence counts the tool of a job is given to produce.
LinesOf(job_id) == IF IsSingle(job_id) THEN ToolLines ELSE PipelineLines
CountsOf(job_id) == IF IsSingle(job_id) THEN SeqCounts ELSE PipelineCounts

Environment ==
    \/ \E job_id \in DOMAIN active_jobs, i \in 1..Len(databases) :
          \E line \in LinesOf(job_id) :
             i \in DOMAIN procs[job_id] /\ ProcPrint(job_id, i, line)
    \/ \E job_id \in DOMAIN active_jobs, i \in 1..Len(databases) :
          \E code \in {0, 1}, wrote \in BOOLEAN, c \in CountsOf(job_id) :
             i \in DOMAIN procs[job_id] /\ ProcExit(job_id, i, code, wrote, c)

Facade ==
    \/ \E job_id \in DOMAIN active_jobs, sig \in {SIGTERM, SIGKILL} :
          end_job(job_id, sig)
    \/ \E job_id \in DOMAIN active_jobs : cleanup_job(job_id)
    \/ recover_stuck_jobs

\* Single-stage jobs: start_pipeline and run_pipeline_step, with the clock
\* standing still.
SingleSteps ==
    \/ \E database \in SingleTypes : Submit(database)
    \/ \E job_id \in DOMAIN active_jobs : RunStepStart(job_id)
    \/ \E job_id \in DOMAIN active_jobs, started \in BOOLEAN :
          RunStepSpawn(job_id, started)
    \/ \E job_id \in DOMAIN active_jobs : RunStepCancelTimer(job_id)
    \/ \E job_id \in DOMAIN active_jobs, size_mb \in BlastSizes :
          RunStepRead(job_id, size_mb)
    \/ \E job_id \in DOMAIN active_jobs : RunStepEof(job_id)
    \/ \E job_id \in DOMAIN active_jobs : RunStepWait(job_id)
    \/ \E job_id \in DOMAIN active_jobs : RunStepAttach(job_id)
    \/ \E job_id \in DOMAIN active_jobs : timeout_handler(job_id)
    \/ Environment
    \/ Facade

NextSingle ==
    \/ Tick
    \/ SingleSteps

\* Full-pipeline jobs: start_full_pipeline and run_full_pipeline_thread.
NextPipeline ==
    \/ Tick
    \/ Submit("pipeline_all")
    \/ \E job_id \in DOMAIN active_jobs : PipelineStart(job_id)
    \/ \E job_id \in DOMAIN active_jobs, started \in BOOLEAN :
          PipelineSpawn(job_id, started)
    \/ \E job_id \in DOMAIN active_jobs : PipelineRead(job_id)
    \/ \E job_id \in DOMAIN active_jobs : PipelineEof(job_id)
    \/ \E job_id \in DOMAIN active_jobs : PipelineWait(job_id)
    \/ \E job_id \in DOMAIN active_jobs : PipelineComplete(job_id)
    \/ Environment
    \/ Facade

\* Alignment jobs: run_alignment and run_alignment_thread.
NextAlign ==
    \/ Submit("alignment")
    \/ \E job_id \in DOMAIN active_jobs, seq_count \in VariantCounts :
          AlignStart(job_id, seq_count)
    \/ \E job_id \in DOMAIN active_jobs, started \in BOOLEAN :
          AlignSpawn(job_id, started)
    \/ \E job_id \in DOMAIN active_jobs : AlignRead(job_id)
    \/ \E job_id \in DOMAIN active_jobs : AlignWait(job_id)
    \/ Environment
    \/ Facade

\* ------------------------------------------ preparation (prep-batch) thread
IsPrep(job_id) == job_id[1] = "mutational_prep"

\* Preparation jobs the model lets run for one project.
MaxPrepJobs == 2

\* The proteins of a request, each a dict with its name.
Selections == {<<[name |-> "A"], [name |-> "B"]>>, <<[name |-> "C"]>>}

\* What the processing of a protein that has variants runs into: nothing,
\* a single variant, a failing ClustalW, no reference sequence, a failing
\* structure prediction.
Outcomes == {"ok", "single", "align_fails", "no_reference", "ss_fails"}

\* The commit of a step that also rewrites completed_mutation_proteins.
PrepCommit(w, meta) ==
    /\ active_jobs' = w.jobs
    /\ job_order' = w.order
    /\ jobs_dir' = w.dir
    /\ socket_out' = w.out
    /\ disk' = w.disk
    /\ socketio' = w.socketio
    /\ completion' = [completion EXCEPT !.meta = meta]
    /\ tool' = tool

\* prepare_mutational_analysis: the id, create_job and the thread.
PrepSubmit(proteins) ==
    LET job_id == <<"mutational_prep", now>>
    IN  /\ Cardinality(DOMAIN active_jobs) < MaxPrepJobs
        /\ job_id \notin DOMAIN active_jobs
        /\ \A j \in DOMAIN threads : threads[j].proteins # proteins
        /\ Commit(create_job(World, job_id, "mutational_prep", CurrentProject))
        /\ threads' = DictSet(threads, job_id,
                        [pc |-> "start", i |-> 1, proteins |-> proteins,
                         proteins_with_variants |-> {},
                         meta_data |-> << >>])
        /\ procs' = DictSet(procs, job_id, << >>)
        /\ pipe' = DictSet(pipe, job_id, << >>)
        /\ UNCHANGED <<files, now>>

\* The thread up to the end of step 1: the 'running' update, the emptying
\* of completed_mutation_proteins, the check of eskape_passing.faa and the
\* extraction of the variants of each protein.
PrepStart(job_id, has_input, with_variants) ==
    LET w1 == add_job_log(
                update_job(World, job_id,
                  [status |-> "running",
                   current_step |-> <<"Initializing...">>, progress |-> 1]),
                job_id, <<"Starting preparation for",
                          ToString(Len(threads[job_id].proteins)),
                          "proteins...">>, "info")
        missing == add_job_log(
                     update_job(w1, job_id,
                       [status |-> "failed", ended_at |-> Some(now),
                        current_step |-> <<"Fatal Error:", "not found">>]),
                     job_id, <<"Fatal Error during preparation:",
                               "not found">>, "error")
        extracted == update_job(
                       add_job_log(w1, job_id,
                         <<"--- Step 1 of 3: Extracting Protein Variants ---">>,
                         "info"),
                       job_id,
                       [progress |-> 10,
                        current_step |-> <<"Variant extraction complete.">>])
    IN  /\ job_id \in DOMAIN threads
        /\ IsPrep(job_id)
        /\ threads[job_id].pc = "start"
        /\ with_variants \subseteq
              {threads[job_id].proteins[k].name :
                 k \in DOMAIN threads[job_id].proteins}
        /\ IF has_input
           THEN /\ PrepCommit(extracted, << >>)
                /\ threads' = [threads EXCEPT
                      ![job_id].pc = "process",
                      ![job_id].proteins_with_variants = with_variants]
           ELSE /\ with_variants = {}
                /\ PrepCommit(missing, << >>)
                /\ Goto(job_id, "done")
        /\ UNCHANGED <<procs, pipe, files, now>>

\* What the body of the loop leaves in the protein's dict.
Processed(protein, has_variants, outcome) ==
    IF ~has_variants
    THEN DictSet(protein, "error", "No sequence variants found for this protein.")
    ELSE IF outcome = "single"
    THEN DictSet(protein, "warning", "Only 1 sequence variant exists")
    ELSE IF outcome = "align_fails"
    THEN DictSet(protein, "error", "ClustalW failed")
    ELSE IF outcome = "no_reference"
    THEN DictSet(protein, "warning", "Could not determine reference sequence")
    ELSE IF outcome = "ss_fails"
    THEN DictSet(protein, "error", "ss_pred.py script failed")
    ELSE protein

\* One turn of the loop over the proteins, up to the call of
\* _add_protein_to_completion_list.
PrepProtein(job_id, outcome) ==
    LET t == threads[job_id]
        total_proteins == Len(t.proteins)
        protein == t.proteins[t.i]
        done == Processed(protein, protein.name \in t.proteins_with_variants,
                          outcome)
        w1 == update_job(World, job_id,
                [progress |-> 10 + ((t.i * 90) \div total_proteins),
                 current_step |-> <<"Processing:", protein.name>>])
        w2 == IF "error" \in DOMAIN done
              THEN add_job_log(w1, job_id,
                     <<"Failed to process", protein.name, done.error>>,
                     "error")
              ELSE w1
    IN  /\ job_id \in DOMAIN threads
        /\ IsPrep(job_id)
        /\ t.pc = "process"
        /\ t.i <= total_proteins
        /\ Commit(w2)
        /\ threads' = [threads EXCEPT ![job_id].pc = "add_read",
                                      ![job_id].proteins[t.i] = done]
        /\ UNCHANGED <<procs, pipe, files, now>>

\* meta_data['completed_mutation_proteins'] after the json.load and the
\* append of a protein whose name is not in it.
Appended(completed, protein_data) ==
    IF protein_data.name \in {completed[n].name : n \in DOMAIN completed}
    THEN completed
    ELSE Append(completed, protein_data)

\* _add_protein_to_completion_list inside the lock of its own: the read.
PrepAddRead(job_id) ==
    LET t == threads[job_id]
    IN  /\ job_id \in DOMAIN threads
        /\ IsPrep(job_id)
        /\ t.pc = "add_read"
        /\ threads' = [threads EXCEPT
              ![job_id].pc = "add_write",
              ![job_id].meta_data = Appended(completion.meta, t.proteins[t.i])]
        /\ socket_out' = << >>
        /\ UNCHANGED <<active_jobs, job_order, jobs_dir, procs, pipe, files,
                       now, disk, socketio, tool, completion>>

\* The json.dump over the file, the return and the next turn of the loop.
PrepAddWrite(job_id) ==
    LET t == threads[job_id]
    IN  /\ job_id \in DOMAIN threads
        /\ IsPrep(job_id)
        /\ t.pc = "add_write"
        /\ completion' = [completion EXCEPT !.meta = t.meta_data]
        /\ threads' = [threads EXCEPT
              ![job_id].pc = IF t.i = Len(t.proteins) THEN "finish"
                             ELSE "process",
              ![job_id].i = t.i + 1,
              ![job_id].meta_data = << >>]
        /\ socket_out' = << >>
        /\ UNCHANGED <<active_jobs, job_order, jobs_dir, procs, pipe, files,
                       now, disk, socketio, tool>>

\* The 'completed' update after the loop.
PrepFinish(job_id) ==
    /\ job_id \in DOMAIN threads
    /\ IsPrep(job_id)
    /\ threads[job_id].pc = "finish"
    /\ Commit(add_job_log(
                update_job(World, job_id,
                  [status |-> "completed", progress |-> 100,
                   ended_at |-> Some(now),
                   current_step |-> <<"All preparations complete.">>]),
                job_id,
                <<"Mutational analysis preparation complete.">>, "success"))
    /\ Goto(job_id, "done")
    /\ UNCHANGED <<procs, pipe, files, now>>

\* Preparation jobs of one project; the clock is followed up to the
\* first step of a thread.
NextPrep ==
    \/ Tick /\ \A j \in DOMAIN threads : threads[j].pc = "start"
    \/ \E proteins \in Selections : PrepSubmit(proteins)
    \/ \E job_id \in DOMAIN active_jobs, has_input \in BOOLEAN :
          \E with_variants \in SUBSET {"A", "B", "C"} :
             PrepStart(job_id, has_input, with_variants)
    \/ \E job_id \in DOMAIN active_jobs, outcome \in Outcomes :
          PrepProtein(job_id, outcome)
    \/ \E job_id \in DOMAIN active_jobs : PrepAddRead(job_id)
    \/ \E job_id \in DOMAIN active_jobs : PrepAddWrite(job_id)
    \/ \E job_id \in DOMAIN active_jobs : PrepFinish(job_id)

\* No file of the pipeline matters to a preparation job but the input it
\* checks, whose presence is an input of PrepStart.
InitPrep == Init /\ files = << >>

SpecPrep == InitPrep /\ [][NextPrep]_vars

\* Calls of _add_protein_to_completion_list by two threads.
NextCompletion ==
    \/ \E t \in Callers, protein \in Proteins : AddCall(t, protein)
    \/ \E t \in Callers : AddRead(t)
    \/ \E t \in Callers : AddWrite(t)

\* Single-stage jobs across a server restart.
NextRestart ==
    \/ NextSingle
    \/ Restart

Next ==
    \/ NextSingle
    \/ NextPipeline
    \/ NextAlign
    \/ NextCompletion
    \/ NextPrep
    \/ Restart

Spec == Init /\ [][Next]_vars
SpecSingle == Init /\ [][NextSingle]_vars
SpecPipeline == Init /\ [][NextPipeline]_vars
SpecRestart == Init /\ [][NextRestart]_vars
SpecAlign == Init /\ [][NextAlign]_vars
SpecCompletion == Init /\ [][NextCompletion]_vars

\* Single-stage jobs on a volume whose writes may fail.
NextDisk ==
    \/ SingleSteps
    \/ \E mode \in DiskModes : DiskChange(mode)

SpecDisk == Init /\ [][NextDisk]_vars

\* Two submissions of single-stage jobs, up to the spawn of their processes.
NextSubmit ==
    \/ Tick
    \/ \E database \in SingleTypes : Submit(database)
    \/ \E database \in SingleTypes, current_project \in Projects :
          SubmitAgain(database, current_project)
    \/ \E job_id \in DOMAIN active_jobs : RunStepStart(job_id)
    \/ \E job_id \in DOMAIN active_jobs, started \in BOOLEAN :
          RunStepSpawn(job_id, started)

SpecSubmit == Init /\ [][NextSubmit]_vars

\* One step of the run_step thread of job_id, its Popen succeeding.
run_step(job_id) ==
    \/ RunStepStart(job_id)
    \/ RunStepSpawn(job_id, TRUE)
    \/ RunStepCancelTimer(job_id)
    \/ \E size_mb \in BlastSizes : RunStepRead(job_id, size_mb)
    \/ RunStepEof(job_id)
    \/ RunStepWait(job_id)
    \/ RunStepAttach(job_id)

\* A job of the first stage whose tool prints, exits 0 and leaves its result
\* files with one passing sequence; nobody cancels it and nothing times out.
HumanIds == {<<databases[1], t>> : t \in 0..MaxTime}

NextHuman ==
    \/ Tick
    \/ Submit(databases[1])
    \/ \E job_id \in HumanIds : run_step(job_id)
    \/ \E job_id \in HumanIds, line \in ToolLines :
          job_id \in DOMAIN procs /\ ProcPrint(job_id, 1, line)
    \/ \E job_id \in HumanIds :
          job_id \in DOMAIN procs /\ ProcExit(job_id, 1, 0, TRUE, 1)

\* The thread of a job is scheduled again and again, and its process exits.
SpecHuman ==
    /\ Init
    /\ [][NextHuman]_vars
    /\ \A job_id \in HumanIds :
          /\ WF_vars(run_step(job_id))
          /\ WF_vars(job_id \in DOMAIN procs
                       /\ ProcExit(job_id, 1, 0, TRUE, 1))

\* A job of the first stage, left alone by the facade, on an event channel
\* that may lose its clients or raise at any moment.
NextSocket ==
    \/ Submit(databases[1])
    \/ \E job_id \in HumanIds : run_step(job_id)
    \/ \E job_id \in HumanIds : RunStepSpawn(job_id, FALSE)
    \/ Environment
    \/ \E mode \in SocketModes : SocketChange(mode)

SpecSocket == Init /\ [][NextSocket]_vars

\* One step of the coordinator thread of job_id, whatever its kind.
thread_step(job_id) ==
    \/ run_step(job_id)
    \/ RunStepSpawn(job_id, FALSE)
    \/ PipelineStart(job_id)
    \/ \E started \in BOOLEAN : PipelineSpawn(job_id, started)
    \/ PipelineRead(job_id)
    \/ PipelineEof(job_id)
    \/ PipelineWait(job_id)
    \/ PipelineComplete(job_id)
    \/ \E seq_count \in VariantCounts : AlignStart(job_id, seq_count)
    \/ \E started \in BOOLEAN : AlignSpawn(job_id, started)
    \/ AlignRead(job_id)
    \/ AlignWait(job_id)

\* The process of job_id's stage i exits by itself.
process_exits(job_id) ==
    \E i \in 1..Len(databases), code \in {0, 1}, wrote \in BOOLEAN :
       /\ job_id \in DOMAIN procs
       /\ i \in DOMAIN procs[job_id]
       /\ ProcExit(job_id, i, code, wrote, 1)

\* Single-stage jobs one after the other, left alone but for calls of
\* recover_stuck_jobs, the clock standing still.
NextRecover ==
    \/ \E database \in SingleTypes : Submit(database)
    \/ \E database \in SingleTypes : SubmitAgain(database, CurrentProject)
    \/ \E job_id \in DOMAIN active_jobs : run_step(job_id)
    \/ \E job_id \in DOMAIN active_jobs : process_exits(job_id)
    \/ recover_stuck_jobs

SpecRecover == Init /\ [][NextRecover]_vars

\* The jobs submitted at time 0.
JobKinds == SingleTypes \cup {"pipeline_all", "alignment"}
FairIds == {<<job_type, 0>> : job_type \in JobKinds}

\* A job of any kind with every outcome of its spawns, of its processes and
\* of its timer, the clock standing still.
NextFair ==
    \/ \E job_type \in JobKinds : Submit(job_type)
    \/ \E job_id \in FairIds : thread_step(job_id)
    \/ \E job_id \in FairIds : process_exits(job_id)
    \/ \E job_id \in DOMAIN active_jobs : timeout_handler(job_id)
    \/ \E job_id \in DOMAIN active_jobs, i \in 1..Len(databases) :
          \E line \in LinesOf(job_id) :
             i \in DOMAIN procs[job_id] /\ ProcPrint(job_id, i, line)

\* The thread of the job is scheduled again and again, and its processes
\* exit (there is one job in a run of this specification).
SpecFair ==
    /\ Init
    /\ [][NextFair]_vars
    /\ WF_vars(\E job_id \in FairIds : thread_step(job_id))
    /\ WF_vars(\E job_id \in FairIds : process_exits(job_id))

\* Runs of the filter tool's STEP 5 over its raw-hit file and cache file.
NextCache ==
    \/ \E use_cache \in BOOLEAN, th \in Thresholds, write \in WriteModes :
          FilterStep5(use_cache, th.identity, th.coverage, th.evalue, write)
    \/ \E mtime \in Mtimes, hits \in HitSets : BlastRewritten(mtime, hits)
    \/ \E state \in CacheStates : CacheDamaged(state)
    \/ \E query_lengths \in QueryLengths : InputChanged(query_lengths)

InitCache == Init /\ files = << >>

SpecCache == InitCache /\ [][NextCache]_vars

\* The load of the job files at server start.
NextLoad == Restart

SpecLoad == InitLoad /\ [][NextLoad]_vars


\* ================================================================== claims
Jobs == DOMAIN active_jobs
Terminal(job) == job.status \in TerminalStatus
IsCancel(job_id) ==
    \/ \E sig \in {SIGTERM, SIGKILL} : end_job(job_id, sig)
    \/ cleanup_job(job_id)

\* C1: in every reachable state of every job, ended_at is set if and only if
\* the status is completed, failed or cancelled.
EndedAtIffTerminal ==
    \A j \in Jobs : (active_jobs[j].ended_at # None) <=> Terminal(active_jobs[j])

\* C2: terminal states are absorbing: once the status is terminal, no step
\* changes the job's status, progress, step label or ended_at.
TerminalAbsorbing ==
    [][\A j \in Jobs :
          Terminal(active_jobs[j]) =>
            /\ j \in DOMAIN active_jobs'
            /\ active_jobs'[j].status = active_jobs[j].status
            /\ active_jobs'[j].progress = active_jobs[j].progress
            /\ active_jobs'[j].current_step = active_jobs[j].current_step
            /\ active_jobs'[j].ended_at = active_jobs[j].ended_at]_vars

\* C3: a Cancel (end_job or cleanup_job) of a queued or running job leaves
\* it cancelled, and a cancelled job stays cancelled whatever its
\* coordinator does afterwards.
CancelYieldsCancelled ==
    [][\A j \in Jobs :
          /\ (IsCancel(j) /\ active_jobs[j].status \in {"queued", "running"})
                => active_jobs'[j].status = "cancelled"
          /\ active_jobs[j].status = "cancelled"
                => active_jobs'[j].status = "cancelled"]_vars

\* C4: a Cancel of a job that is already in a terminal state changes no
\* field of the job and publishes no state update.
CancelIdempotent ==
    [][\A j \in Jobs :
          (IsCancel(j) /\ Terminal(active_jobs[j])) =>
            /\ active_jobs'[j] = active_jobs[j]
            /\ \A n \in DOMAIN socket_out' :
                  socket_out'[n] # <<"job_update", j>>]_vars

\* C5: the timeout timer of a stage stays armed for as long as the stage's
\* process is running, so that the handler fires on a process that outlives
\* the timeout.
TimerArmedWhileRunning ==
    \A j \in Jobs : \A i \in DOMAIN procs[j] :
        procs[j][i].state = "running" =>
          /\ "timeout_timer" \in DOMAIN active_jobs[j]
          /\ active_jobs[j].timeout_timer = "armed"

\* C6: recover_stuck_jobs, applied to a running job whose recorded process
\* has exited, sets the status to failed, sets ended_at and sets the step
\* label to "Process ended unexpectedly".
RecordedProcessDead(j) ==
    /\ active_jobs[j].status = "running"
    /\ "process" \in DOMAIN active_jobs[j]
    /\ active_jobs[j].process # None
    /\ procs[j][active_jobs[j].process[1]].state = "exited"

RecoverReclassifies ==
    [][recover_stuck_jobs =>
         \A j \in Jobs :
            RecordedProcessDead(j) =>
              /\ active_jobs'[j].status = "failed"
              /\ active_jobs'[j].ended_at = Some(now)
              /\ active_jobs'[j].current_step =
                    <<"Process ended unexpectedly">>]_vars

RecoveredJob ==
    \E j \in Jobs :
        /\ active_jobs[j].status = "failed"
        /\ active_jobs[j].current_step = <<"Process ended unexpectedly">>
        /\ active_jobs[j].ended_at # None
        /\ threads[j].pc \in {"read", "wait"}

\* C7: after a restart, recover_stuck_jobs leaves no reloaded job (one
\* without a process handle) in the running state: in every reachable state
\* the registry it produces has no such job.
NoRunningAfterRecover ==
    \A j \in Jobs :
       "process" \notin DOMAIN active_jobs[j]
          => RecoverAll(World, Jobs).jobs[j].status # "running"


\* C8: when the coordinator of a full-pipeline job has finished, the job's
\* results hold an entry for every stage before the first failing stage (all
\* four if none failed) and no entry for the failing stage or a later one.
\* A stage fails when its process did not exit 0 (or was never started) or
\* no results were found for it.
StageSucceeded(j, i) ==
    /\ procs[j][i].returncode = Some(0)
    /\ ~Falsy(get_step_results(files, databases[i]))

FirstFailing(j) ==
    IF \A i \in 1..Len(databases) : StageSucceeded(j, i)
    THEN Len(databases) + 1
    ELSE CHOOSE i \in 1..Len(databases) :
            /\ ~StageSucceeded(j, i)
            /\ \A k \in 1..(i - 1) : StageSucceeded(j, k)

OwnArtifacts(db) == {passing_file(db), filtered_file(db), summary_file(db)}

MissingArtifactFatal ==
    \A j \in DOMAIN threads :
       /\ IsPipeline(j) =>
            \A db \in DOMAIN active_jobs[j].results :
               OwnArtifacts(db) \subseteq DOMAIN files
       /\ (IsSingle(j) /\ active_jobs[j].status = "completed") =>
            OwnArtifacts(j[1]) \subseteq DOMAIN files

\* C10: in a full-pipeline job, when the coordinator finds that a stage's
\* process exited with nonzero status it marks the job failed with the
\* stage named in the step label and ends; and no process of a later stage
\* is ever spawned after a stage's process exited nonzero.
FailFast ==
    /\ [][\A j \in DOMAIN threads :
            (/\ IsPipeline(j)
             /\ threads[j].pc = "wait"
             /\ threads'[j].pc # "wait"
             /\ procs[j][threads[j].i].returncode # Some(0)) =>
               /\ active_jobs'[j].status = "failed"
               /\ active_jobs'[j].current_step =
                     <<"Failed during", databases[threads[j].i], "filter.">>
               /\ threads'[j].pc = "done"]_vars
    /\ [](\A j \in DOMAIN threads : \A i \in DOMAIN procs[j] :
            (procs[j][i].state = "exited" /\ procs[j][i].returncode # Some(0))
               => \A k \in DOMAIN procs[j] :
                     k > i => procs[j][k].state = "unborn")

FailedDuringVfdb ==
    \E j \in DOMAIN threads :
       /\ IsPipeline(j)
       /\ threads[j].pc = "done"
       /\ procs[j][3].state = "exited"
       /\ procs[j][3].returncode # Some(0)
       /\ procs[j][4].state = "unborn"
       /\ active_jobs[j].status = "failed"
       /\ active_jobs[j].current_step = <<"Failed during", "vfdb", "filter.">>

\* C11: a job is completed only if every stage of the job has finished with
\* exit status 0, whatever Cancel operations were interleaved with it.
CompletedOnlyIfAllExitZero ==
    \A j \in Jobs :
       active_jobs[j].status = "completed" =>
          \A i \in DOMAIN procs[j] : procs[j][i].returncode = Some(0)

\* A full pipeline that completed although its reading loop had detected a
\* cancellation on the way.
CompletedDespiteCancelDetected ==
    \E j \in Jobs :
       /\ IsPipeline(j)
       /\ active_jobs[j].status = "completed"
       /\ \E n \in DOMAIN active_jobs[j].logs :
             active_jobs[j].logs[n].message =
                <<"Job cancellation detected, terminating process.">>

\* C12: progress never decreases from one state to the next, except in the
\* step that begins a new stage of a full-pipeline job.
BeginsStage(j) ==
    /\ IsPipeline(j)
    /\ threads[j].pc = "start"
    /\ threads'[j].pc = "spawn"

ProgressMonotone ==
    [][\A j \in Jobs :
          j \in DOMAIN active_jobs' =>
             \/ active_jobs'[j].progress >= active_jobs[j].progress
             \/ BeginsStage(j)]_vars

\* C16: the log of a job is append-only: in every step the old log is a
\* prefix of the new one.
LogsAppendOnly ==
    [][\A j \in Jobs :
          /\ j \in DOMAIN active_jobs'
          /\ Len(active_jobs'[j].logs) >= Len(active_jobs[j].logs)
          /\ SubSeq(active_jobs'[j].logs, 1, Len(active_jobs[j].logs))
                = active_jobs[j].logs]_vars

\* A job stopped by the timeout handler after its output was logged.
LoggedThenTimedOut ==
    \E j \in Jobs :
       /\ Len(active_jobs[j].logs) >= 3
       /\ active_jobs[j].logs[Len(active_jobs[j].logs)].level = "error"
       /\ "timeout_timer" \in DOMAIN active_jobs[j]
       /\ active_jobs[j].timeout_timer = "fired"

\* C18: after create_job, and after every step that ends with an update_job
\* whose write succeeded, the job's file holds every field of the in-memory
\* job with the same value, except the process and timer handles.
EndsWithUpdate(j) ==
    /\ socket_out' # << >>
    /\ socket_out'[Len(socket_out')] = <<"job_update", j>>

RecordMirrorsJob ==
    [][\A j \in DOMAIN active_jobs' :
          ((j \notin Jobs) \/ (disk = "ok" /\ EndsWithUpdate(j))) =>
             /\ j \in DOMAIN jobs_dir'
             /\ jobs_dir'[j] =
                   DictWithout(active_jobs'[j], {"process", "timeout_timer"})]_vars

\* A running job with both handles in memory whose file was just rewritten
\* by a milestone update.
RecordWithoutHandles ==
    \E j \in Jobs :
       /\ HasProcess(active_jobs[j])
       /\ "timeout_timer" \in DOMAIN active_jobs[j]
       /\ active_jobs[j].progress = 25
       /\ j \in DOMAIN jobs_dir
       /\ jobs_dir[j] =
             DictWithout(active_jobs[j], {"process", "timeout_timer"})

\* C19: a failed write of the job file does not abort the job: the step in
\* which the coordinator starts the job, and the step in which it leaves
\* process.wait(), still update the in-memory job, still publish the state
\* update, and the coordinator goes on as it does when the write succeeds.
WriteFailureTolerated ==
    [][\A j \in DOMAIN threads :
          (disk # "ok" /\ IsSingle(j) /\ threads'[j].pc # threads[j].pc) =>
             /\ threads[j].pc = "start" =>
                   /\ active_jobs'[j].status = "running"
                   /\ active_jobs'[j].progress = 5
                   /\ <<"job_update", j>> \in
                         {socket_out'[n] : n \in DOMAIN socket_out'}
                   /\ threads'[j].pc = "spawn"
             /\ threads[j].pc = "wait" =>
                   /\ active_jobs'[j].status =
                         IF procs[j][1].returncode = Some(0)
                         THEN "completed" ELSE "failed"
                   /\ active_jobs'[j].ended_at = Some(now)
                   /\ <<"job_update", j>> \in
                         {socket_out'[n] : n \in DOMAIN socket_out'}
                   /\ threads'[j].pc =
                         IF procs[j][1].returncode = Some(0)
                         THEN "attach" ELSE "done"]_vars

\* A job that completed and got its results in memory on a failing volume,
\* while its file does not say completed.
CompletedInMemoryOnly ==
    \E j \in DOMAIN threads :
       /\ disk # "ok"
       /\ threads[j].pc = "done"
       /\ active_jobs[j].status = "completed"
       /\ ~Falsy(active_jobs[j].results)
       /\ ("status" \in DOMAIN jobs_dir[j] => jobs_dir[j].status # "completed")

\* C17: on a working volume load_jobs quarantines every job file that cannot
\* be parsed (the file is renamed with the .corrupted suffix and no registry
\* entry is made for it) and loads every valid record under its id.
LoadQuarantinesCorrupt ==
    LET r == load_jobs(jobs_dir, files, disk)
    IN  disk = "ok" =>
          \A f \in JsonFiles(jobs_dir) :
             IF IsJson(jobs_dir[f])
             THEN /\ jobs_dir[f].id \in DOMAIN r.jobs
                  /\ r.jobs[jobs_dir[f].id].id = jobs_dir[f].id
             ELSE /\ f \notin DOMAIN r.jobs
                  /\ f \notin DOMAIN r.dir
                  /\ Quarantined(f) \in DOMAIN r.dir

\* C20: every submission creates its job under an id that no job of the
\* registry has: the registry grows by one, and the in-memory job and the
\* file of every job already there are left as they were.
IsSubmit ==
    \E database \in SingleTypes :
       \/ Submit(database)
       \/ \E current_project \in Projects :
             SubmitAgain(database, current_project)

JobIdsUnique ==
    [][IsSubmit =>
         /\ Cardinality(DOMAIN active_jobs') = Cardinality(Jobs) + 1
         /\ \A j \in Jobs :
               /\ active_jobs'[j] = active_jobs[j]
               /\ jobs_dir'[j] = jobs_dir[j]]_vars

\* Payloads a save may be given for the current raw hits.
HitIds == {h.id : h \in tool.blast.hits}
Payloads ==
    {[filtered_ids |-> ids,
      hit_details |-> [id \in ids |-> CHOOSE h \in tool.blast.hits : h.id = id],
      blast_hits |-> tool.blast.hits] : ids \in SUBSET HitIds}

CacheInvalidation ==
    \A th \in Thresholds :
       LET got == get_cached_results(tool.cache, tool.blast, th.identity,
                                     th.coverage, th.evalue)
       IN  IF /\ HasEntry(tool.cache)
              /\ tool.saved_with =
                    Some(<<tool.blast.mtime, th.identity, th.coverage,
                           th.evalue>>)
           THEN got = DictWithout(tool.cache, {"state"})
           ELSE got = None

\* An entry saved for an earlier raw-hit file: the lookup with the same
\* thresholds misses.
StaleEntryMisses ==
    /\ HasEntry(tool.cache)
    /\ tool.saved_with # None
    /\ tool.saved_with[1][1] # tool.blast.mtime
    /\ get_cached_results(tool.cache, tool.blast, tool.saved_with[1][2],
                          tool.saved_with[1][3], tool.saved_with[1][4]) = None

\* C15: a run with caching enabled whose cache file is missing, corrupt or
\* unreadable, or whose cache write fails, recomputes: it is not served from
\* the cache, a failed write leaves no entry for the run's inputs, and the
\* run ends with exit status 0 and the result of a run with caching off.
CacheFailureTolerated ==
    [][(/\ tool'.run # None
        /\ tool'.run[1].use_cache
        /\ FilterStep5(TRUE, tool'.run[1].identity, tool'.run[1].coverage,
                       tool'.run[1].evalue, tool'.run[1].write)
        /\ \/ ~HasEntry(tool.cache)
           \/ tool'.run[1].write # "ok" /\ ~tool'.run[1].from_cache) =>
           LET run == tool'.run[1]
               off == Step5(tool, FALSE, run.identity, run.coverage,
                            run.evalue, run.write).run[1]
           IN  /\ run.exit = 0
               /\ run.exit = off.exit
               /\ run.filtered_ids = off.filtered_ids
               /\ run.hit_details = off.hit_details
               /\ ~run.from_cache
               /\ run.parsed
               /\ run.write # "ok" =>
                     get_cached_results(tool'.cache, tool'.blast,
                        run.identity, run.coverage, run.evalue) = None]_vars

\* A run with caching enabled that found a corrupt cache file, could not
\* write a new one, and still ended with exit status 0 and passing ids.
RecomputedDespiteCacheFailure ==
    /\ tool.run # None
    /\ tool.run[1].use_cache
    /\ tool.run[1].write = "open_fails"
    /\ tool.cache.state = "corrupt"
    /\ tool.run[1].parsed
    /\ tool.run[1].exit = 0
    /\ tool.run[1].filtered_ids # {}

\* C21: the listing of a project holds exactly the jobs of that project,
\* each once and without its process handle, the most recently created
\* first.
ListMostRecentFirst ==
    \A current_project \in Projects :
       LET jobs_data == get_jobs(current_project)
       IN  /\ {job.id : job \in {jobs_data[n] : n \in DOMAIN jobs_data}}
                 = {j \in Jobs : active_jobs[j].project = current_project}
           /\ Len(jobs_data) =
                 Cardinality({j \in Jobs :
                                active_jobs[j].project = current_project})
           /\ \A n \in DOMAIN jobs_data :
                 "process" \notin DOMAIN jobs_data[n]
           /\ \A n \in DOMAIN jobs_data, m \in DOMAIN jobs_data :
                 n < m => jobs_data[n].created_at >= jobs_data[m].created_at

\* C22: a job of stage human whose tool exits 0 and writes its result files
\* eventually is completed with progress 100 and with the stage's results
\* attached, the count of passing sequences among them and not zero.
HumanJobDone(job_id) ==
    /\ job_id \in Jobs
    /\ active_jobs[job_id].status = "completed"
    /\ active_jobs[job_id].progress = 100
    /\ "passing_sequences" \in DOMAIN active_jobs[job_id].results
    /\ active_jobs[job_id].results.passing_sequences > 0

HumanJobCompletes ==
    \A job_id \in HumanIds : (job_id \in Jobs) ~> HumanJobDone(job_id)

HumanJobCompleted ==
    \E job_id \in HumanIds :
       /\ HumanJobDone(job_id)
       /\ threads[job_id].pc = "done"
       /\ procs[job_id][1].returncode = Some(0)

\* C23: when the tool of a stage cannot be started, the step that tried
\* leaves the job failed, with the error in its step label and as the last
\* line of its log, and ends the thread; a thread that has ended starts no
\* process any more, neither that stage's nor a later one's.
SpawnRefused(j) ==
    /\ j \in DOMAIN threads
    /\ threads[j].pc = "spawn"
    /\ threads'[j] # threads[j]
    /\ procs'[j][threads[j].i] = Unborn

SpawnFailureFatal ==
    [][\A j \in Jobs :
          /\ SpawnRefused(j) =>
                /\ active_jobs'[j].status = "failed"
                /\ active_jobs'[j].ended_at = Some(now)
                /\ active_jobs'[j].current_step[1] = "Error:"
                /\ active_jobs'[j].logs # << >>
                /\ active_jobs'[j].logs[Len(active_jobs'[j].logs)].level
                      = "error"
                /\ threads'[j].pc = "done"
                /\ procs'[j] = procs[j]
          /\ (j \in DOMAIN threads /\ threads[j].pc = "done") =>
                /\ threads'[j].pc = "done"
                /\ \A i \in DOMAIN procs[j] :
                      procs[j][i] = Unborn => procs'[j][i] = Unborn]_vars

SecondStageRefused ==
    \E j \in Jobs :
       /\ IsPipeline(j)
       /\ threads[j].pc = "done"
       /\ threads[j].i = 2
       /\ procs[j][1].returncode = Some(0)
       /\ procs[j][2] = Unborn
       /\ procs[j][3] = Unborn
       /\ active_jobs[j].status = "failed"
       /\ active_jobs[j].current_step = <<"Error:", "Popen">>

\* C24: publishing never affects the job: on a channel without clients or
\* one that raises, the step in which the coordinator starts the job and
\* the step in which it leaves process.wait() still make their update and
\* append their log lines in memory and go on to the step that follows, not
\* to the exception handler; and a thread that ends leaves the job in the
\* terminal state that the outcome of its process calls for.
Outcome(j) ==
    IF procs[j][1].returncode = Some(0) THEN "completed" ELSE "failed"

EventFailureTolerated ==
    [][\A j \in DOMAIN threads :
          (socketio # "ok" /\ IsSingle(j) /\ threads'[j].pc # threads[j].pc)
          =>
             /\ threads[j].pc = "start" =>
                   /\ active_jobs'[j].status = "running"
                   /\ active_jobs'[j].progress = 5
                   /\ Len(active_jobs'[j].logs) = Len(active_jobs[j].logs) + 2
                   /\ threads'[j].pc = "spawn"
             /\ threads[j].pc = "wait" =>
                   /\ active_jobs'[j].status = Outcome(j)
                   /\ active_jobs'[j].ended_at = Some(now)
                   /\ Len(active_jobs'[j].logs) = Len(active_jobs[j].logs) + 1
                   /\ threads'[j].pc =
                         IF Outcome(j) = "completed" THEN "attach" ELSE "done"
             /\ threads'[j].pc = "done" =>
                   active_jobs'[j].status = Outcome(j)]_vars

\* A job that completed with its results while every emit raised.
CompletedUnheard ==
    \E j \in DOMAIN threads :
       /\ socketio = "raises"
       /\ socket_out = << >>
       /\ threads[j].pc = "done"
       /\ active_jobs[j].status = "completed"
       /\ ~Falsy(active_jobs[j].results)

\* C25: the terminal state is published once and last: once the status of a
\* job is completed, failed or cancelled, no step publishes another state
\* update of that job, neither one that attaches results nor a second
\* terminal one.
TerminalUpdateLast ==
    [][\A j \in Jobs :
          Terminal(active_jobs[j]) =>
             <<"job_update", j>> \notin
                {socket_out'[n] : n \in DOMAIN socket_out'}]_vars

\* C26: cooperative cancellation: when the thread of a job takes a line of
\* its process's output while the job's status is no longer running, a stop
\* or cancel having been requested, it does not append the line to the log,
\* it ends the process and it leaves the reading loop.
TakesLine(j) ==
    /\ j \in DOMAIN threads
    /\ threads[j].pc = "read"
    /\ pipe[j] # << >>
    /\ Head(pipe[j]) # ""
    /\ pipe'[j] = Tail(pipe[j])

CancelStopsReading ==
    [][\A j \in Jobs :
          (TakesLine(j) /\ active_jobs[j].status # "running") =>
             /\ active_jobs'[j].logs[Len(active_jobs'[j].logs)].message
                   # <<Head(pipe[j])>>
             /\ ~poll_is_None(procs'[j][threads[j].i])
             /\ threads'[j].pc # "read"]_vars

\* C27: once the thread of a job has ended, the job's file holds the job as
\* it is in memory, handles left out, every log line included, and a
\* restart's load_jobs gives back the same status, results and log.
PersistedLogComplete ==
    \A j \in DOMAIN threads :
       (threads[j].pc = "done" /\ j \in Jobs) =>
          LET reloaded == load_jobs(jobs_dir, files, disk).jobs
          IN  /\ j \in DOMAIN jobs_dir
              /\ jobs_dir[j] = SaveData(active_jobs[j])
              /\ j \in DOMAIN reloaded
              /\ reloaded[j].status = active_jobs[j].status
              /\ reloaded[j].results = active_jobs[j].results
              /\ reloaded[j].logs = active_jobs[j].logs

\* C28: calls of _add_protein_to_completion_list for one project exclude
\* each other between their read and their write of the metadata file, and
\* no update is lost: when no call is under way, every protein whose call
\* has returned is in the file's list.
CompletionListed == {completion.meta[n] : n \in DOMAIN completion.meta}

NoLostCompletion ==
    /\ Cardinality({t \in Callers : completion.pc[t] # "idle"}) <= 1
    /\ (\A t \in Callers : completion.pc[t] = "idle") =>
          completion.returned \subseteq CompletionListed

\* C29: what the cache serves is what a recomputation would give: whenever
\* get_cached_results returns a payload for the raw-hit file and some
\* thresholds, its filtered ids and hit details are those that parsing the
\* raw-hit file and filtering it with these thresholds and the query
\* lengths of the current stage input yield.
ServedEqualsRecomputed ==
    \A th \in Thresholds :
       LET cached == get_cached_results(tool.cache, tool.blast, th.identity,
                                        th.coverage, th.evalue)
           fresh == filter_blast_hits(parse_blast_results(tool.blast),
                                      tool.filtered_seqs, th.identity,
                                      th.coverage, th.evalue)
       IN  (~IsRaised(cached) /\ cached # None) =>
              /\ cached.filtered_ids = fresh.filtered_ids
              /\ cached.hit_details = fresh.hit_details

\* C30: every submitted job eventually is terminal: under fair scheduling
\* of its thread and with processes that exit, the thread of a job of any
\* kind ends, and the job then is completed, failed or cancelled.
JobEnded(job_id) ==
    /\ threads[job_id].pc = "done"
    /\ Terminal(active_jobs[job_id])

StageAttached(j) ==
    /\ j \in DOMAIN threads
    /\ IsPipeline(j)
    /\ threads[j].pc = "wait"
    /\ threads'[j].pc \in {"start", "complete"}

HasStageResult(job, db) ==
    /\ "results" \in DOMAIN job
    /\ db \in DOMAIN job.results
    /\ ~Falsy(job.results[db])

PartialResultsAttached ==
    [][\A j \in Jobs :
          /\ StageAttached(j) =>
                LET db == databases[threads[j].i]
                IN  /\ HasStageResult(active_jobs'[j], db)
                    /\ active_jobs'[j].results[db]
                          = get_step_results(files, db)
                    /\ jobs_dir'[j].results = active_jobs'[j].results
                    /\ active_jobs'[j].status = active_jobs[j].status
                    /\ active_jobs'[j].ended_at = active_jobs[j].ended_at
          /\ (j \in DOMAIN threads /\ IsPipeline(j)) =>
                \A i \in 2..Len(databases) :
                   procs'[j][i] # Unborn =>
                      /\ HasStageResult(active_jobs'[j], databases[i - 1])
                      /\ HasStageResult(jobs_dir'[j], databases[i - 1])]_vars

\* A running pipeline job whose second stage's process runs while the
\* results of the first stage are in its file.
RunningWithPartialResults ==
    \E j \in Jobs :
       /\ IsPipeline(j)
       /\ active_jobs[j].status = "running"
       /\ active_jobs[j].ended_at = None
       /\ poll_is_None(procs[j][2])
       /\ HasStageResult(jobs_dir[j], databases[1])
       /\ ~HasStageResult(jobs_dir[j], databases[2])

\* C32: a run of the filtering step with caching enabled, made when the
\* cache file holds the entry saved for the present raw-hit file and the
\* run's thresholds, neither parses nor filters, and the filtered ids, hit
\* details and raw hits it goes on with are those of the entry.
ValidEntryFor(tl, identity, coverage, evalue) ==
    /\ HasEntry(tl.cache)
    /\ tl.saved_with = Some(<<tl.blast.mtime, identity, coverage, evalue>>)

CacheHitSkipsComputation ==
    [][\A th \in Thresholds : \A write \in WriteModes :
          (/\ ValidEntryFor(tool, th.identity, th.coverage, th.evalue)
           /\ FilterStep5(TRUE, th.identity, th.coverage, th.evalue, write)) =>
              LET run == tool'.run[1]
              IN  /\ run.exit = 0
                  /\ run.from_cache
                  /\ ~run.parsed
                  /\ ~run.saved
                  /\ run.filtered_ids = tool.cache.filtered_ids
                  /\ run.hit_details = tool.cache.hit_details
                  /\ run.blast_hits = tool.cache.blast_hits
                  /\ tool'.cache = tool.cache]_vars

\* A run was served from the cache: it did not parse, and what it used is
\* what the cache file holds, passing ids included.
ServedFromCache ==
    /\ tool.run # None
    /\ tool.run[1].use_cache
    /\ tool.run[1].from_cache
    /\ ~tool.run[1].parsed
    /\ ValidEntryFor(tool, tool.run[1].identity, tool.run[1].coverage,
                     tool.run[1].evalue)
    /\ tool.run[1].filtered_ids # {}
    /\ tool.run[1].filtered_ids = tool.cache.filtered_ids

\* C33: once the thread of a single-stage job has waited for its process
\* and finished, the job's log holds an entry whose message contains the
\* process's exit status, whether the status is zero or not.
RecordsExitStatus(entry, code) ==
    \E k \in DOMAIN entry.message : entry.message[k] = ToString(code)

ExitStatusLogged ==
    \A job_id \in Jobs :
       (/\ job_id \in DOMAIN threads
        /\ IsSingle(job_id)
        /\ threads[job_id].pc = "done"
        /\ procs[job_id][1].state = "exited") =>
           \E k \in DOMAIN active_jobs[job_id].logs :
              RecordsExitStatus(active_jobs[job_id].logs[k],
                                procs[job_id][1].returncode[1])

\* C34: when the thread of a preparation job leaves its loop over the
\* selected proteins, it has processed every one of them, each is in the
\* project's completed_mutation_proteins as the loop left it, with its
\* error or warning, and the job's status becomes completed.
Listed(protein_data) ==
    \E n \in DOMAIN completion.meta : completion.meta[n] = protein_data

PrepEnded(job_id) ==
    /\ job_id \in DOMAIN threads
    /\ IsPrep(job_id)
    /\ threads[job_id].pc = "finish"
    /\ threads'[job_id].pc = "done"

ProteinFailuresIsolated ==
    [][\A job_id \in Jobs :
          PrepEnded(job_id) =>
             /\ active_jobs'[job_id].status = "completed"
             /\ threads[job_id].i = Len(threads[job_id].proteins) + 1
             /\ \A k \in DOMAIN threads[job_id].proteins :
                   Listed(threads[job_id].proteins[k])]_vars

\* C35: a call of recover_stuck_jobs leaves every job that is not running,
\* and every running job whose process has not exited, as it was, in the
\* registry and in its file, and publishes no job_update for it.
Published(job_id) ==
    <<"job_update", job_id>> \in {socket_out'[n] : n \in DOMAIN socket_out'}

NotRunningOrAlive(job_id) ==
    \/ active_jobs[job_id].status # "running"
    \/ /\ HasProcess(active_jobs[job_id])
       /\ poll_is_None(procs[job_id][active_jobs[job_id].process[1]])

RecoverLeavesOthers ==
    [][recover_stuck_jobs =>
          \A job_id \in Jobs :
             NotRunningOrAlive(job_id) =>
                /\ job_id \in DOMAIN active_jobs'
                /\ active_jobs'[job_id] = active_jobs[job_id]
                /\ job_id \in DOMAIN jobs_dir =>
                      /\ job_id \in DOMAIN jobs_dir'
                      /\ jobs_dir'[job_id] = jobs_dir[job_id]
                /\ ~Published(job_id)]_vars

\* A recovery has reclassified one job, whose process had exited behind its
\* thread's back, next to an ended job that is as its thread left it; and
\* recovering again changes nothing.
RecoveredNextToEnded ==
    \E j1 \in Jobs, j2 \in Jobs :
       /\ j1 # j2
       /\ active_jobs[j1].current_step = <<"Process ended unexpectedly">>
       /\ active_jobs[j2].status = "completed"
       /\ active_jobs[j2].current_step = <<"Completed successfully">>
       /\ jobs_dir[j2].status = "completed"
       /\ NotRunningOrAlive(j1)
       /\ NotRunningOrAlive(j2)
       /\ RecoverAll(World, Jobs).jobs = active_jobs

\* C36: no job ever has two running processes, and no step starts a
\* coordinator thread for an id that the registry already holds.
OneProcess ==
    \A job_id \in DOMAIN procs :
       Cardinality({i \in DOMAIN procs[job_id] :
                      poll_is_None(procs[job_id][i])}) <= 1

CoordinatorStarted(job_id) ==
    /\ job_id \in DOMAIN threads'
    /\ threads'[job_id].pc = "start"
    /\ threads'[job_id].i = 1
    /\ job_id \in DOMAIN threads => threads[job_id].pc = "done"

OneSupervisorPerJob ==
    [][/\ OneProcess'
       /\ \A job_id \in DOMAIN threads' :
             CoordinatorStarted(job_id) => job_id \notin Jobs]_vars

\* C37: the thread of a full-pipeline job comes to the spawn of a stage
\* only by the step that sets the job's status to running and its
\* current_step to the label of that stage and publishes the update, the
\* stage's process not yet existing; and a process is spawned only by a
\* thread that stands at the spawn of that stage.
ComesToSpawn(job_id) ==
    /\ threads[job_id].pc # "spawn"
    /\ threads'[job_id].pc = "spawn"

RuntimeRecomputed ==
    [][\A job_id \in Jobs :
          job_id \in DOMAIN active_jobs' =>
             LET old == active_jobs[job_id]
                 new == active_jobs'[job_id]
             IN  /\ (new.ended_at # old.ended_at /\ new.ended_at # None
                       /\ new.started_at # None) =>
                       new.runtime_seconds
                          = new.ended_at[1] - new.started_at[1]
                 /\ new.runtime_seconds # old.runtime_seconds =>
                       /\ new.ended_at # None
                       /\ new.ended_at[1] = now
                       /\ new.started_at # None
                       /\ new.runtime_seconds
                             = new.ended_at[1] - new.started_at[1]]_vars

\* A job that ran for some time and ended: its runtime is the difference
\* of its two timestamps, and is not zero.
RuntimeOfEndedJob ==
    \E job_id \in Jobs :
       /\ active_jobs[job_id].started_at # None
       /\ active_jobs[job_id].ended_at # None
       /\ active_jobs[job_id].ended_at[1] > active_jobs[job_id].started_at[1]
       /\ active_jobs[job_id].runtime_seconds
             = active_jobs[job_id].ended_at[1]
                  - active_jobs[job_id].started_at[1]
====
